---- MODULE Spec2Model ----
(***************************************************************************)
(* Task lifecycle and JSON-RPC dispatch of the migration pathways agent    *)
(* (cmd/server/main.go, with the Gemini client as the pathway generator).  *)
(*                                                                         *)
(* Every HTTP request runs on its own goroutine.  Requests are numbered in *)
(* the order in which HandlePlanner decodes them; request r owns the Task  *)
(* object heap[r] that its ProcessTask call allocates.  The store a.tasks  *)
(* maps a task id to a POINTER to such an object, so the model keeps the   *)
(* objects (heap) apart from the map (tasks): ProcessTask changes the      *)
(* fields of its object outside the lock, and GetTask hands the pointer to *)
(* sendSuccess, which reads the fields outside the lock as well.           *)
(***************************************************************************)
EXTENDS Integers, Sequences, FiniteSets, TLC

\* Number of requests the server receives in one behaviour.
MaxRequests == 2

Requests == 1..MaxRequests

-----------------------------------------------------------------------------
(* Inputs *)

\* The client's JSON-RPC id; NullId is JSON null, also Go's nil interface.
NullId == "null"
RpcIds == {"rid-1"}

\* Task ids a caller may supply; "" is an absent id.
CallerIds == {"a"}

\* uuid.New().String(): the n-th identifier generated by the process.
NewUUID(n) == "uuid-" \o ToString(n)

\* The text the generator answers the call of request r with (an opaque value,
\* one per call), and the reasons it may fail with.
GeneratedText(r) == "pathway-" \o ToString(r)
ApiErrors == {"API error"}
NoKeyError == "GEMINI_API_KEY environment variable not set"

\* Message parts.  QueryText is what the user writes, "UK"; a part of another
\* type may carry a text field as well.
QueryText == <<"U", "K">>
TextPart(t) == [type |-> "text", text |-> t]
FilePart == [type |-> "file", text |-> QueryText]
EmptyMessage == [role |-> "", parts |-> <<>>]
Messages ==
    { [role |-> "user", parts |-> <<TextPart(QueryText)>>],
      [role |-> "user", parts |-> <<FilePart>>],
      [role |-> "user", parts |-> <<>>],
      EmptyMessage }

\* The params object of a request: the keys the handlers decode.  "valid" is
\* FALSE for params json.Unmarshal rejects (a string, a number for id, ...).
\* role and parts are the top-level keys of a bare message given as params.
Params(valid, id, message, role, parts) ==
    [valid |-> valid, id |-> id, message |-> message, role |-> role, parts |-> parts]
BadParams == Params(FALSE, "", EmptyMessage, "", <<>>)
NoParams == Params(TRUE, "", EmptyMessage, "", <<>>)


\* The params of send requests: every shape, for the requests of one client
\* at a time ...
SendParams ==
    { Params(TRUE, id, m, "", <<>>) : id \in CallerIds \cup {""}, m \in Messages }
        \cup { Params(TRUE, id, EmptyMessage, "user", <<TextPart(QueryText)>>) :
                 id \in CallerIds \cup {""} }
        \cup {BadParams}

\* ... and the text queries, with and without an id, of concurrent clients.
QueryParams ==
    { Params(TRUE, id, [role |-> "user", parts |-> <<TextPart(QueryText)>>], "", <<>>) :
        id \in CallerIds \cup {""} } \cup {BadParams}

Request(body, method, rpcid, params) ==
    [body |-> body, method |-> method, rpcid |-> rpcid, params |-> params]
NoRequest == Request("", "", NullId, NoParams)

-----------------------------------------------------------------------------
(* The query of a message and its profile *)

\* The text of a message part and the query are Go strings that the code
\* looks into: each is the sequence of its characters, every character a
\* one-character string.
UpperCase == <<"A", "B", "C", "D", "E", "F", "G", "H", "I", "J", "K", "L", "M",
               "N", "O", "P", "Q", "R", "S", "T", "U", "V", "W", "X", "Y", "Z">>
LowerCase == <<"a", "b", "c", "d", "e", "f", "g", "h", "i", "j", "k", "l", "m",
               "n", "o", "p", "q", "r", "s", "t", "u", "v", "w", "x", "y", "z">>
WhiteSpace == {" ", "\t", "\n", "\r"}
Digits == <<"0", "1", "2", "3", "4", "5", "6", "7", "8", "9">>

\* strings.ToLower
ToLower(s) ==
    [i \in 1..Len(s) |->
        IF \E k \in 1..26 : UpperCase[k] = s[i]
        THEN LowerCase[CHOOSE k \in 1..26 : UpperCase[k] = s[i]]
        ELSE s[i]]

\* strings.Contains
Contains(s, key) ==
    \E i \in 1..(Len(s) - Len(key) + 1) : SubSeq(s, i, i + Len(key) - 1) = key

\* strings.TrimSpace
TrimSpace(s) ==
    LET keep == { i \in 1..Len(s) : s[i] \notin WhiteSpace } IN
    IF keep = {} THEN <<>>
    ELSE SubSeq(s, CHOOSE i \in keep : \A j \in keep : i <= j,
                   CHOOSE i \in keep : \A j \in keep : j <= i)

\* Mutant: the loop takes the text of every part, whatever its type.
RECURSIVE Mutant_JoinText_AnyType(_)
Mutant_JoinText_AnyType(parts) ==
    IF parts = <<>> THEN <<>>
    ELSE Head(parts).text \o <<" ">> \o Mutant_JoinText_AnyType(Tail(parts))

\* Mutant: the texts are put together with nothing between them.
RECURSIVE Mutant_JoinText_NoSeparator(_)
Mutant_JoinText_NoSeparator(parts) ==
    IF parts = <<>> THEN <<>>
    ELSE (IF Head(parts).type = "text" THEN Head(parts).text ELSE <<>>)
            \o Mutant_JoinText_NoSeparator(Tail(parts))

\* The loop over message.Parts: the text of every part of type "text",
\* each followed by a space.
RECURSIVE JoinText(_)
JoinText(parts) ==
    IF parts = <<>> THEN <<>>
    ELSE (IF Head(parts).type = "text" THEN Head(parts).text \o <<" ">> ELSE <<>>)
            \o JoinText(Tail(parts))

\* userQuery as ProcessTask hands it to parseUserQuery: the joined text is
\* one value, trimmed.
UserQuery(message) ==
    CHOOSE query \in { TrimSpace(joined) : joined \in {JoinText(message.parts)} } : TRUE

professions ==
    {
      [key |-> <<"s", "o", "f", "t", "w", "a", "r", "e", " ", "e", "n", "g", "i", "n", "e", "e", "r">>, value |-> "software engineer"],
      [key |-> <<"d", "a", "t", "a", " ", "s", "c", "i", "e", "n", "t", "i", "s", "t">>, value |-> "data scientist"],
      [key |-> <<"e", "n", "g", "i", "n", "e", "e", "r">>, value |-> "engineer"],
      [key |-> <<"d", "e", "v", "e", "l", "o", "p", "e", "r">>, value |-> "developer"],
      [key |-> <<"p", "r", "o", "g", "r", "a", "m", "m", "e", "r">>, value |-> "programmer"],
      [key |-> <<"d", "o", "c", "t", "o", "r">>, value |-> "doctor"],
      [key |-> <<"n", "u", "r", "s", "e">>, value |-> "nurse"],
      [key |-> <<"t", "e", "a", "c", "h", "e", "r">>, value |-> "teacher"],
      [key |-> <<"a", "c", "c", "o", "u", "n", "t", "a", "n", "t">>, value |-> "accountant"],
      [key |-> <<"d", "e", "s", "i", "g", "n", "e", "r">>, value |-> "designer"],
      [key |-> <<"m", "a", "n", "a", "g", "e", "r">>, value |-> "manager"],
      [key |-> <<"a", "n", "a", "l", "y", "s", "t">>, value |-> "analyst"],
      [key |-> <<"c", "o", "n", "s", "u", "l", "t", "a", "n", "t">>, value |-> "consultant"] }

countries ==
    {
      [key |-> <<"c", "a", "n", "a", "d", "a">>, value |-> "Canada"],
      [key |-> <<"u", "s", "a">>, value |-> "USA"],
      [key |-> <<"u", "n", "i", "t", "e", "d", " ", "s", "t", "a", "t", "e", "s">>, value |-> "USA"],
      [key |-> <<"a", "m", "e", "r", "i", "c", "a">>, value |-> "USA"],
      [key |-> <<"u", "k">>, value |-> "UK"],
      [key |-> <<"u", "n", "i", "t", "e", "d", " ", "k", "i", "n", "g", "d", "o", "m">>, value |-> "UK"],
      [key |-> <<"b", "r", "i", "t", "a", "i", "n">>, value |-> "UK"],
      [key |-> <<"g", "e", "r", "m", "a", "n", "y">>, value |-> "Germany"],
      [key |-> <<"a", "u", "s", "t", "r", "a", "l", "i", "a">>, value |-> "Australia"],
      [key |-> <<"f", "r", "a", "n", "c", "e">>, value |-> "France"],
      [key |-> <<"n", "e", "t", "h", "e", "r", "l", "a", "n", "d", "s">>, value |-> "Netherlands"],
      [key |-> <<"s", "w", "e", "d", "e", "n">>, value |-> "Sweden"],
      [key |-> <<"n", "o", "r", "w", "a", "y">>, value |-> "Norway"],
      [key |-> <<"d", "e", "n", "m", "a", "r", "k">>, value |-> "Denmark"],
      [key |-> <<"s", "w", "i", "t", "z", "e", "r", "l", "a", "n", "d">>, value |-> "Switzerland"],
      [key |-> <<"n", "e", "w", " ", "z", "e", "a", "l", "a", "n", "d">>, value |-> "New Zealand"],
      [key |-> <<"s", "i", "n", "g", "a", "p", "o", "r", "e">>, value |-> "Singapore"],
      [key |-> <<"j", "a", "p", "a", "n">>, value |-> "Japan"],
      [key |-> <<"s", "o", "u", "t", "h", " ", "k", "o", "r", "e", "a">>, value |-> "South Korea"],
      [key |-> <<"d", "u", "b", "a", "i">>, value |-> "UAE"],
      [key |-> <<"u", "a", "e">>, value |-> "UAE"] }

origins ==
    {
      [key |-> <<"n", "i", "g", "e", "r", "i", "a">>, value |-> "Nigeria"],
      [key |-> <<"g", "h", "a", "n", "a">>, value |-> "Ghana"],
      [key |-> <<"k", "e", "n", "y", "a">>, value |-> "Kenya"],
      [key |-> <<"s", "o", "u", "t", "h", " ", "a", "f", "r", "i", "c", "a">>, value |-> "South Africa"],
      [key |-> <<"e", "t", "h", "i", "o", "p", "i", "a">>, value |-> "Ethiopia"],
      [key |-> <<"e", "g", "y", "p", "t">>, value |-> "Egypt"],
      [key |-> <<"m", "o", "r", "o", "c", "c", "o">>, value |-> "Morocco"],
      [key |-> <<"t", "a", "n", "z", "a", "n", "i", "a">>, value |-> "Tanzania"],
      [key |-> <<"u", "g", "a", "n", "d", "a">>, value |-> "Uganda"],
      [key |-> <<"i", "n", "d", "i", "a">>, value |-> "India"],
      [key |-> <<"p", "a", "k", "i", "s", "t", "a", "n">>, value |-> "Pakistan"],
      [key |-> <<"b", "a", "n", "g", "l", "a", "d", "e", "s", "h">>, value |-> "Bangladesh"],
      [key |-> <<"p", "h", "i", "l", "i", "p", "p", "i", "n", "e", "s">>, value |-> "Philippines"],
      [key |-> <<"c", "h", "i", "n", "a">>, value |-> "China"],
      [key |-> <<"b", "r", "a", "z", "i", "l">>, value |-> "Brazil"],
      [key |-> <<"m", "e", "x", "i", "c", "o">>, value |-> "Mexico"],
      [key |-> <<"a", "r", "g", "e", "n", "t", "i", "n", "a">>, value |-> "Argentina"] }

\* for key, value := range table { if Contains(queryLower, key) { ...; break } }
\* Go visits the keys of a map in an unspecified order, so the value found
\* is that of any key the query contains, and "" when it contains none.
Extract(table, queryLower) ==
    LET hits == { e \in table : Contains(queryLower, e.key) } IN
    IF hits = {} THEN {""} ELSE { e.value : e \in hits }

\* strings.Index(s, "$"), counted from 1; 0 when there is none.
IndexDollar(s) ==
    IF \E i \in 1..Len(s) : s[i] = "$"
    THEN CHOOSE i \in 1..Len(s) : s[i] = "$" /\ \A j \in 1..(i - 1) : s[j] # "$"
    ELSE 0

IsDigit(c) == \E k \in 1..10 : Digits[k] = c
DigitValue(c) == (CHOOSE k \in 1..10 : Digits[k] = c) - 1

\* The characters after position i up to the first that is no digit, comma
\* or point.
RECURSIVE NumberRun(_, _)
NumberRun(s, i) ==
    IF i <= Len(s) /\ (IsDigit(s[i]) \/ s[i] = "," \/ s[i] = ".")
    THEN <<s[i]>> \o NumberRun(s, i + 1)
    ELSE <<>>

\* numStr: that run without its commas.
NumStr(s, idx) == SelectSeq(NumberRun(s, idx + 1), LAMBDA c : c # ",")

\* fmt.Sscanf(numStr, "%d", &n): the decimal digits numStr starts with;
\* ok is FALSE, and n untouched, when it starts with none.
RECURSIVE LeadingDigits(_)
LeadingDigits(s) ==
    IF s # <<>> /\ IsDigit(Head(s)) THEN <<Head(s)>> \o LeadingDigits(Tail(s)) ELSE <<>>

RECURSIVE Decimal(_)
Decimal(ds) ==
    IF ds = <<>> THEN 0 ELSE 10 * Decimal(SubSeq(ds, 1, Len(ds) - 1)) + DigitValue(ds[Len(ds)])

Sscanf(numStr) ==
    LET ds == LeadingDigits(numStr) IN
    [ok |-> ds # <<>>, n |-> IF ds = <<>> THEN 0 ELSE Decimal(ds)]

\* The budget block: the number after the first "$", times 1000 when the
\* character at idx+len(numStr)+1 is a k.
Budget(queryLower) ==
    LET idx == IndexDollar(queryLower)
        numStr == NumStr(queryLower, idx)
        scan == Sscanf(numStr)
        k == idx + Len(numStr) + 1
    IN  IF idx = 0 THEN 0
        ELSE IF k <= Len(queryLower) /\ queryLower[k] = "k"
        THEN (IF scan.ok THEN scan.n * 1000 ELSE 0)
        ELSE scan.n

\* type UserProfile, and its zero value.
UserProfile(profession, destination, budget, origin) ==
    [profession |-> profession, destination |-> destination, budget |-> budget,
     origin |-> origin]
NoProfile == UserProfile("", "", 0, "")

\* parseUserQuery(query): the profiles it may return.  queryLower is the
\* one value of strings.ToLower(query).
parseUserQuery(query) ==
    UNION { { UserProfile(p, d, Budget(queryLower), o) :
                p \in Extract(professions, queryLower),
                d \in Extract(countries, queryLower),
                o \in Extract(origins, queryLower) } :
            queryLower \in { ToLower(q) : q \in {query} } }

-----------------------------------------------------------------------------
(* Queries for the extractor *)

\* Texts a user may write, spelt character by character.  The numbers in
\* them have at most four digits: budgets stay far from the limits of int.
\* "software engineer from Nigeria, want to move to Canada with $5,000"
ExampleQuery ==
    <<"s", "o", "f", "t", "w", "a", "r", "e", " ", "e", "n", "g", "i", "n",
      "e", "e", "r", " ", "f", "r", "o", "m", " ", "N", "i", "g", "e", "r",
      "i", "a", ",", " ", "w", "a", "n", "t", " ", "t", "o", " ", "m", "o",
      "v", "e", " ", "t", "o", " ", "C", "a", "n", "a", "d", "a", " ", "w",
      "i", "t", "h", " ", "$", "5", ",", "0", "0", "0">>

\* "$5k budget"
BudgetK ==
    <<"$", "5", "k", " ", "b", "u", "d", "g", "e", "t">>

\* "$5,000k"
BudgetCommaK ==
    <<"$", "5", ",", "0", "0", "0", "k">>

\* "pay $2500 now"
BudgetPlain ==
    <<"p", "a", "y", " ", "$", "2", "5", "0", "0", " ", "n", "o", "w">>

\* "$12.5k"
BudgetPointK ==
    <<"$", "1", "2", ".", "5", "k">>

\* "$k"
BudgetNoDigits ==
    <<"$", "k">>

\* "budget 5000 dollars"
NoDollar ==
    <<"b", "u", "d", "g", "e", "t", " ", "5", "0", "0", "0", " ", "d", "o",
      "l", "l", "a", "r", "s">>

\* "Doctor or nurse"
TwoProfessions ==
    <<"D", "o", "c", "t", "o", "r", " ", "o", "r", " ", "n", "u", "r", "s",
      "e">>

\* "to UK or USA"
TwoDestinations ==
    <<"t", "o", " ", "U", "K", " ", "o", "r", " ", "U", "S", "A">>

\* "from Ghana or Kenya"
TwoOrigins ==
    <<"f", "r", "o", "m", " ", "G", "h", "a", "n", "a", " ", "o", "r", " ",
      "K", "e", "n", "y", "a">>

\* "\tnurse \n"
PaddedText ==
    <<"\t", "n", "u", "r", "s", "e", " ", "\n">>

\* " to Canada "
InnerText ==
    <<" ", "t", "o", " ", "C", "a", "n", "a", "d", "a", " ">>

QueryTexts ==
    { ExampleQuery, BudgetK, BudgetCommaK, BudgetPlain,
      BudgetPointK, BudgetNoDigits, NoDollar, TwoProfessions,
      TwoDestinations, TwoOrigins, PaddedText, InnerText,
      QueryText, <<>> }

\* The messages the extractor is run on by itself: every text as the only
\* part, and messages of several parts, of text and of other types.
ParseMessages ==
    { [role |-> "user", parts |-> <<TextPart(t)>>] : t \in QueryTexts }
        \cup { [role |-> "user", parts |-> <<TextPart(PaddedText), FilePart,
                                             TextPart(InnerText)>>],
               [role |-> "user", parts |-> <<TextPart(InnerText), TextPart(<<>>),
                                             TextPart(BudgetK)>>],
               [role |-> "user", parts |-> <<FilePart, TextPart(BudgetK), FilePart>>],
               [role |-> "user", parts |-> <<FilePart, FilePart>>],
               [role |-> "", parts |-> <<>>] }

\* The messages ProcessTask can be called with, and for each its query and
\* the profiles parseUserQuery may return for that query.
ProcessedMessages ==
    Messages \cup { [role |-> p.role, parts |-> p.parts] : p \in SendParams }
        \cup ParseMessages

UserQueries == [m \in ProcessedMessages |-> UserQuery(m)]

Profiles == [m \in ProcessedMessages |-> parseUserQuery(UserQueries[m])]

-----------------------------------------------------------------------------
(* State *)

VARIABLES
    tasks,      \* a.tasks: task id -> pointer (the number of the owning request)
    heap,       \* the Task objects: heap[r] is the object ProcessTask of r allocated
    mu,         \* a.mu: the request holding the write lock (0: none), the readers
    apiKey,     \* gc.APIKey is set
    nreq,       \* requests decoded so far
    nuuid,      \* task ids generated so far
    req,        \* req[r]: the request as the client sent it
    pc,         \* pc[r]: where the goroutine of request r stands
    loc,        \* loc[r]: its local variables
    resp,       \* resp[r]: the JSON-RPC response written to it
    wlog,       \* wlog[r]: the states of the task at each store write r has made
    clock,      \* the clock time.Now() reads, and whether it runs
    times       \* times[r]: CreatedAt and UpdatedAt of the Task object heap[r]

vars == <<tasks, heap, mu, apiKey, nreq, nuuid, req, pc, loc, resp, wlog, clock, times>>

\* type Task: ID, Status{State, Message}, Artifacts.  A nil Status.Message is
\* the empty sequence, a present one the sequence of its one text part.
NilTask == [id |-> "", state |-> "", message |-> <<>>, artifacts |-> <<>>]

ArtifactName == "Migration Pathway Recommendation"

NoResponse ==
    [kind |-> "none", code |-> 0, message |-> "", data |-> "", task |-> NilTask,
     id |-> NullId]

\* The locals of a handler before they are assigned.  wroteAfter and calls
\* are not variables of the code but records of history: the requests that
\* had made their terminal write under the same task id when this one made
\* its own, and the number of calls of the generator this one has made.
NoLocals ==
    [taskID |-> "", message |-> EmptyMessage, query |-> <<>>,
     profile |-> NoProfile, err |-> "",
     responseText |-> "", got |-> 0, status |-> NilTask, wroteAfter |-> {},
     calls |-> 0]

\* The clock behind time.Now(), in ticks.  It never goes back.  Where a
\* specification is not about time the clock stands still and every reading
\* is 0; where it runs, up to one tick passes before each reading, until
\* MaxClock.
MaxClock == 3
StoppedClock == [runs |-> FALSE, now |-> 0]
RunningClock == [runs |-> TRUE, now |-> 0]

\* The ticks that may pass before a reading taken when the clock shows n.
Elapsed(n) == IF clock.runs /\ n < MaxClock THEN {0, 1} ELSE {0}

\* CreatedAt and UpdatedAt of a Task that does not exist yet.
NoTimes == [createdAt |-> 0, updatedAt |-> 0]

\* CreatedAt: time.Now(), UpdatedAt: time.Now() in the Task literal: two
\* readings, one after the other.
TimesAtCreation(r) ==
    \E d1 \in Elapsed(clock.now) :
        \E d2 \in Elapsed(clock.now + d1) :
            /\ times' = [times EXCEPT ![r] = [createdAt |-> clock.now + d1,
                                              updatedAt |-> clock.now + d1 + d2]]
            /\ clock' = [clock EXCEPT !.now = @ + d1 + d2]

\* Mutant: the update writes the reading into CreatedAt as well.
Mutant_UpdatedAtNow_MovesCreatedAt(r) ==
    \E d \in Elapsed(clock.now) :
        /\ times' = [times EXCEPT ![r] = [createdAt |-> clock.now + d,
                                          updatedAt |-> clock.now + d]]
        /\ clock' = [clock EXCEPT !.now = @ + d]

\* task.UpdatedAt = time.Now()
UpdatedAtNow(r) ==
    \E d \in Elapsed(clock.now) :
        /\ times' = [times EXCEPT ![r].updatedAt = clock.now + d]
        /\ clock' = [clock EXCEPT !.now = @ + d]

Init ==
    /\ tasks = [i \in {} |-> 0]
    /\ heap = [r \in Requests |-> NilTask]
    /\ mu = [writer |-> 0, readers |-> {}]
    /\ apiKey \in BOOLEAN
    /\ nreq = 0
    /\ nuuid = 0
    /\ req = [r \in Requests |-> NoRequest]
    /\ pc = [r \in Requests |-> "idle"]
    /\ loc = [r \in Requests |-> NoLocals]
    /\ resp = [r \in Requests |-> NoResponse]
    /\ wlog = [r \in Requests |-> <<>>]
    /\ clock = StoppedClock
    /\ times = [r \in Requests |-> NoTimes]

-----------------------------------------------------------------------------
(* Responses *)

\* A sendError that leaves the id out of the response.
Mutant_sendError_DropsId(r, err, code, message, id) ==
    /\ resp' = [resp EXCEPT ![r] =
                  [kind |-> "error", code |-> code, message |-> message,
                   data |-> err, task |-> NilTask, id |-> NullId]]
    /\ pc' = [pc EXCEPT ![r] = "done"]

\* sendError(w, err, code, message, id): data is err.Error(), "" for a nil err.
sendError(r, err, code, message, id) ==
    /\ resp' = [resp EXCEPT ![r] =
                  [kind |-> "error", code |-> code, message |-> message,
                   data |-> err, task |-> NilTask, id |-> id]]
    /\ pc' = [pc EXCEPT ![r] = "done"]

\* sendSuccess(w, result, id) with the encoded task.
sendSuccess(r, task, id) ==
    /\ resp' = [resp EXCEPT ![r] =
                  [kind |-> "result", code |-> 0, message |-> "", data |-> "",
                   task |-> task, id |-> id]]
    /\ pc' = [pc EXCEPT ![r] = "done"]

\* The request r is the next one HandlePlanner decodes.
Arrive(r, rq) ==
    /\ r = nreq + 1
    /\ nreq' = r
    /\ req' = [req EXCEPT ![r] = rq]


\* JSON-RPC error codes used by the handlers.
CodeParseError == -32700
CodeMethodNotFound == -32601
CodeInvalidParams == -32602
CodeInternalError == -32603

UnmarshalError == "json: cannot unmarshal"
TaskNotFound(id) == "task not found: " \o id

-----------------------------------------------------------------------------
(* Task store and lock *)

\* Mutant: the write replaces the map by one holding this entry only.
Mutant_Put_ForgetsOthers(id, ptr) == [i \in {id} |-> ptr]

\* a.tasks[taskID] = task
Put(id, ptr) == [i \in (DOMAIN tasks) \cup {id} |-> IF i = id THEN ptr ELSE tasks[i]]

\* sync.RWMutex, as far as exclusion goes: one writer or any number of
\* readers.  (Go also makes new readers wait behind a blocked writer; that
\* removes behaviours and adds none.)

\* a.mu.Lock() returns: no writer and no reader holds the lock.
Lock(r) ==
    /\ mu.writer = 0
    /\ mu.readers = {}
    /\ mu' = [mu EXCEPT !.writer = r]

\* a.mu.Unlock()
Unlock(r) == mu' = [mu EXCEPT !.writer = 0]

\* Mutant: a reader does not wait for the writer.
Mutant_RLock_IgnoresWriter(r) == mu' = [mu EXCEPT !.readers = @ \cup {r}]

\* a.mu.RLock() returns: no writer holds the lock.
RLock(r) ==
    /\ mu.writer = 0
    /\ mu' = [mu EXCEPT !.readers = @ \cup {r}]

\* a.mu.RUnlock()
RUnlock(r) == mu' = [mu EXCEPT !.readers = @ \ {r}]

-----------------------------------------------------------------------------
(* HandlePlanner and the method handlers, up to their first shared access *)

\* The bodies json.NewDecoder(r.Body).Decode(&req) rejects.  "syntax" is a
\* body that is not well-formed JSON: the decoder fails while scanning and
\* req stays the zero value.  "badtype" is a well-formed object with a
\* value of the wrong type in one field (a number as method): the decoder
\* skips that field, fills in the others and returns the type error.
BadBodies == {"syntax", "badtype"}

\* req.ID after the decoding of the request rq.
DecodedId(rq) == IF rq.body = "syntax" THEN NullId ELSE rq.rpcid

\* Mutant: a body that does not decode also empties the task map.
Mutant_ParseError_ClearsStore(r) ==
    /\ pc[r] = "idle"
    /\ \E rpcid \in RpcIds, body \in BadBodies :
          LET rq == Request(body, "", rpcid, NoParams) IN
          /\ Arrive(r, rq)
          /\ sendError(r, "", CodeParseError, "Parse error", DecodedId(rq))
    /\ tasks' = [i \in {} |-> 0]
    /\ UNCHANGED <<heap, clock, times, mu, apiKey, nuuid, loc, wlog>>

\* The decoder fails: the id echoed is req.ID as far as decoding went.
ParseError(r) ==
    /\ pc[r] = "idle"
    /\ \E rpcid \in RpcIds, body \in BadBodies :
          LET rq == Request(body, "", rpcid, NoParams) IN
          /\ Arrive(r, rq)
          /\ sendError(r, "", CodeParseError, "Parse error", DecodedId(rq))
    /\ UNCHANGED <<tasks, heap, clock, times, mu, apiKey, nuuid, loc, wlog>>

UnknownMethods == {"tasks/cancel"}

\* Mutant: an unknown method falls through to the handler of tasks/get.
Mutant_MethodNotFound_FallsThrough(r) ==
    /\ pc[r] = "idle"
    /\ \E rpcid \in RpcIds, m \in UnknownMethods :
          /\ Arrive(r, Request("ok", m, rpcid, NoParams))
          /\ pc' = [pc EXCEPT ![r] = "rlock"]
    /\ UNCHANGED <<tasks, heap, clock, times, mu, apiKey, nuuid, loc, resp, wlog>>

\* The default branch of the switch on req.Method.
MethodNotFound(r) ==
    /\ pc[r] = "idle"
    /\ \E rpcid \in RpcIds, m \in UnknownMethods :
          /\ Arrive(r, Request("ok", m, rpcid, NoParams))
          /\ sendError(r, "", CodeMethodNotFound, "Method not found", rpcid)
    /\ UNCHANGED <<tasks, heap, clock, times, mu, apiKey, nuuid, loc, wlog>>

\* Mutant: the handlers pass the id of the params on as it is, so an absent
\* id becomes the task id "".
Mutant_Create_KeepsEmptyId(r, id, message) ==
    /\ nuuid' = nuuid
    /\ heap' = [heap EXCEPT ![r] =
                  [id |-> id, state |-> "working", message |-> <<>>,
                   artifacts |-> <<>>]]
    /\ loc' = [loc EXCEPT ![r] = [NoLocals EXCEPT !.taskID = id,
                                                  !.message = message]]
    /\ pc' = [pc EXCEPT ![r] = "lock1"]
    /\ UNCHANGED resp
    /\ TimesAtCreation(r)

\* Mutant: the Task gets the id as it came in the params, the map key the
\* id the handler settled on.
Mutant_Create_IdFieldFromParams(r, id, message) ==
    LET taskID == IF id = "" THEN NewUUID(nuuid + 1) ELSE id IN
    /\ nuuid' = IF id = "" THEN nuuid + 1 ELSE nuuid
    /\ heap' = [heap EXCEPT ![r] =
                  [id |-> id, state |-> "working", message |-> <<>>,
                   artifacts |-> <<>>]]
    /\ loc' = [loc EXCEPT ![r] = [NoLocals EXCEPT !.taskID = taskID,
                                                  !.message = message]]
    /\ pc' = [pc EXCEPT ![r] = "lock1"]
    /\ UNCHANGED resp
    /\ TimesAtCreation(r)

\* ProcessTask from its entry to a.mu.Lock(): the Task object is allocated in
\* state working.  taskID "" stands for "generate one" in the callers.
ProcessTask_Create(r, id, message) ==
    LET taskID == IF id = "" THEN NewUUID(nuuid + 1) ELSE id IN
    /\ nuuid' = IF id = "" THEN nuuid + 1 ELSE nuuid
    /\ heap' = [heap EXCEPT ![r] =
                  [id |-> taskID, state |-> "working", message |-> <<>>,
                   artifacts |-> <<>>]]
    /\ loc' = [loc EXCEPT ![r] = [NoLocals EXCEPT !.taskID = taskID,
                                                  !.message = message]]
    /\ pc' = [pc EXCEPT ![r] = "lock1"]
    /\ UNCHANGED resp
    /\ TimesAtCreation(r)

\* handleTasksSend up to the call of ProcessTask.
handleTasksSend(r, P) ==
    /\ pc[r] = "idle"
    /\ \E rpcid \in RpcIds, p \in P :
          /\ Arrive(r, Request("ok", "tasks/send", rpcid, p))
          /\ IF ~p.valid
             THEN /\ sendError(r, UnmarshalError, CodeInvalidParams,
                               "Invalid params", rpcid)
                  /\ UNCHANGED <<heap, clock, times, nuuid, loc>>
             ELSE ProcessTask_Create(r, p.id, p.message)
    /\ UNCHANGED <<tasks, mu, apiKey, wlog>>

\* Mutant: a bare message is processed under the id found in the params.
Mutant_handleMessage_BareKeepsId(r, P) ==
    /\ pc[r] = "idle"
    /\ \E rpcid \in RpcIds, p \in P :
          /\ Arrive(r, Request("ok", "message/send", rpcid, p))
          /\ IF p.valid /\ (p.message.role # "" \/ Len(p.message.parts) > 0)
             THEN ProcessTask_Create(r, p.id, p.message)
             ELSE IF p.valid /\ (p.role # "" \/ Len(p.parts) > 0)
             THEN ProcessTask_Create(r, p.id, [role |-> p.role, parts |-> p.parts])
             ELSE /\ sendError(r, "", CodeInvalidParams,
                               "Invalid params for message", rpcid)
                  /\ UNCHANGED <<heap, clock, times, nuuid, loc>>
    /\ UNCHANGED <<tasks, mu, apiKey, wlog>>

\* handleMessage up to the call of ProcessTask: the wrapper {message, id}
\* first, then params as the message itself, under a generated id.
handleMessage(r, P) ==
    /\ pc[r] = "idle"
    /\ \E rpcid \in RpcIds, p \in P :
          /\ Arrive(r, Request("ok", "message/send", rpcid, p))
          /\ IF p.valid /\ (p.message.role # "" \/ Len(p.message.parts) > 0)
             THEN ProcessTask_Create(r, p.id, p.message)
             ELSE IF p.valid /\ (p.role # "" \/ Len(p.parts) > 0)
             THEN ProcessTask_Create(r, "", [role |-> p.role, parts |-> p.parts])
             ELSE /\ sendError(r, "", CodeInvalidParams,
                               "Invalid params for message", rpcid)
                  /\ UNCHANGED <<heap, clock, times, nuuid, loc>>
    /\ UNCHANGED <<tasks, mu, apiKey, wlog>>

\* The ids a tasks/get may ask for: absent, a caller's id, or a generated id
\* a client has been told.
GetParams ==
    { Params(TRUE, id, EmptyMessage, "", <<>>) :
        id \in CallerIds \cup {""} \cup { NewUUID(k) : k \in 1..nuuid } }
        \cup {BadParams}

\* Mutant: params that do not unmarshal make the handler return without
\* writing a response.
Mutant_handleTasksGet_SilentOnBadParams(r) ==
    /\ pc[r] = "idle"
    /\ \E rpcid \in RpcIds, p \in GetParams :
          /\ Arrive(r, Request("ok", "tasks/get", rpcid, p))
          /\ IF ~p.valid
             THEN /\ pc' = [pc EXCEPT ![r] = "done"]
                  /\ UNCHANGED <<loc, resp>>
             ELSE /\ loc' = [loc EXCEPT ![r] = [NoLocals EXCEPT !.taskID = p.id]]
                  /\ pc' = [pc EXCEPT ![r] = "rlock"]
                  /\ UNCHANGED resp
    /\ UNCHANGED <<tasks, heap, clock, times, mu, apiKey, nuuid, wlog>>

\* handleTasksGet up to the call of GetTask.
handleTasksGet(r) ==
    /\ pc[r] = "idle"
    /\ \E rpcid \in RpcIds, p \in GetParams :
          /\ Arrive(r, Request("ok", "tasks/get", rpcid, p))
          /\ IF ~p.valid
             THEN /\ sendError(r, UnmarshalError, CodeInvalidParams,
                               "Invalid params", rpcid)
                  /\ UNCHANGED loc
             ELSE /\ loc' = [loc EXCEPT ![r] = [NoLocals EXCEPT !.taskID = p.id]]
                  /\ pc' = [pc EXCEPT ![r] = "rlock"]
                  /\ UNCHANGED resp
    /\ UNCHANGED <<tasks, heap, clock, times, mu, apiKey, nuuid, wlog>>


-----------------------------------------------------------------------------
(* Pathway generator *)

\* Mutant: the check of the API key is left out, the HTTP call decides.
Mutant_GetMigrationPathways_NoKeyCheck(r) ==
    { [err |-> "", text |-> GeneratedText(r)] }
        \cup { [err |-> e, text |-> ""] : e \in ApiErrors }

\* GetMigrationPathways: (text, nil) or ("", err).  Without an API key it
\* fails before any network call; with one, the HTTP call decides.
GetMigrationPathways(r) ==
    IF ~apiKey
    THEN { [err |-> NoKeyError, text |-> ""] }
    ELSE { [err |-> "", text |-> GeneratedText(r)] }
            \cup { [err |-> e, text |-> ""] : e \in ApiErrors }

-----------------------------------------------------------------------------
(* ProcessTask, statement by statement where it touches shared memory *)

\* a.mu.Lock() before the first store write.
ProcessTask_Lock1(r) ==
    /\ pc[r] = "lock1"
    /\ Lock(r)
    /\ pc' = [pc EXCEPT ![r] = "store1"]
    /\ UNCHANGED <<tasks, heap, clock, times, apiKey, nreq, nuuid, req, loc, resp, wlog>>

\* Mutant: the first store write is left out (the lock is taken and released).
Mutant_Store1_NoWrite(r) ==
    /\ pc[r] = "store1"
    /\ Unlock(r)
    /\ \E profile \in Profiles[loc[r].message] :
          loc' = [loc EXCEPT ![r].query = UserQueries[loc[r].message],
                            ![r].profile = profile]
    /\ pc' = [pc EXCEPT ![r] = "generate"]
    /\ UNCHANGED <<tasks, heap, clock, times, apiKey, nreq, nuuid, req, resp, wlog>>

\* Mutant: the Unlock after the first store write is left out.
Mutant_Store1_NoUnlock(r) ==
    /\ pc[r] = "store1"
    /\ tasks' = Put(loc[r].taskID, r)
    /\ wlog' = [wlog EXCEPT ![r] = Append(@, heap[r].state)]
    /\ \E profile \in Profiles[loc[r].message] :
          loc' = [loc EXCEPT ![r].query = UserQueries[loc[r].message],
                            ![r].profile = profile]
    /\ pc' = [pc EXCEPT ![r] = "generate"]
    /\ UNCHANGED <<heap, clock, times, mu, apiKey, nreq, nuuid, req, resp>>

\* a.tasks[taskID] = task; a.mu.Unlock(): the pointer stored, the task
\* working.  The goroutine goes on to extract the query from the message and
\* to parse it, which touches its locals only, up to the generator call.
ProcessTask_Store1(r) ==
    /\ pc[r] = "store1"
    /\ tasks' = Put(loc[r].taskID, r)
    /\ wlog' = [wlog EXCEPT ![r] = Append(@, heap[r].state)]
    /\ Unlock(r)
    /\ \E profile \in Profiles[loc[r].message] :
          loc' = [loc EXCEPT ![r].query = UserQueries[loc[r].message],
                            ![r].profile = profile]
    /\ pc' = [pc EXCEPT ![r] = "generate"]
    /\ UNCHANGED <<heap, clock, times, apiKey, nreq, nuuid, req, resp>>

\* Mutant: the generator serves one call at a time, so a call returns only
\* when no other request is inside the generator.
Mutant_Generate_OneAtATime(r) ==
    /\ pc[r] = "generate"
    /\ \A q \in Requests \ {r} : pc[q] # "generate"
    /\ \E out \in GetMigrationPathways(r) :
          /\ loc' = [loc EXCEPT ![r].err = out.err, ![r].responseText = out.text,
                                ![r].calls = @ + 1]
          /\ pc' = [pc EXCEPT ![r] = IF out.err # "" THEN "failStatus" ELSE "okStatus"]
    /\ UNCHANGED <<tasks, heap, clock, times, mu, apiKey, nreq, nuuid, req, resp, wlog>>

\* The goroutine blocks in a.gemini.GetMigrationPathways, called with the
\* fields of loc[r].profile, until it returns.
ProcessTask_Generate(r) ==
    /\ pc[r] = "generate"
    /\ \E out \in GetMigrationPathways(r) :
          /\ loc' = [loc EXCEPT ![r].err = out.err, ![r].responseText = out.text,
                                ![r].calls = @ + 1]
          /\ pc' = [pc EXCEPT ![r] = IF out.err # "" THEN "failStatus" ELSE "okStatus"]
    /\ UNCHANGED <<tasks, heap, clock, times, mu, apiKey, nreq, nuuid, req, resp, wlog>>

\* Mutant: the failure branch returns without persisting the failed task.
Mutant_FailStatus_NoPersist(r) ==
    /\ pc[r] = "failStatus"
    /\ heap' = [heap EXCEPT ![r].state = "failed",
                            ![r].message =
                                <<"Failed to generate pathways: " \o loc[r].err>>]
    /\ pc' = [pc EXCEPT ![r] = "return"]
    /\ UNCHANGED <<tasks, mu, apiKey, nreq, nuuid, req, loc, resp, wlog>>
    /\ UpdatedAtNow(r)

\* Mutant: after a first failure the generator is called once more.
Mutant_FailStatus_RetriesOnce(r) ==
    /\ pc[r] = "failStatus"
    /\ IF loc[r].calls < 2
       THEN /\ pc' = [pc EXCEPT ![r] = "generate"]
            /\ UNCHANGED <<heap, clock, times>>
       ELSE /\ heap' = [heap EXCEPT ![r].state = "failed",
                                    ![r].message =
                                        <<"Failed to generate pathways: " \o loc[r].err>>]
            /\ UpdatedAtNow(r)
            /\ pc' = [pc EXCEPT ![r] = "lock2"]
    /\ UNCHANGED <<tasks, mu, apiKey, nreq, nuuid, req, loc, resp, wlog>>

\* Mutant: the failed status carries a fixed text without err.
Mutant_FailStatus_NoReason(r) ==
    /\ pc[r] = "failStatus"
    /\ heap' = [heap EXCEPT ![r].state = "failed",
                            ![r].message = <<"Failed to generate pathways">>]
    /\ pc' = [pc EXCEPT ![r] = "lock2"]
    /\ UNCHANGED <<tasks, mu, apiKey, nreq, nuuid, req, loc, resp, wlog>>
    /\ UpdatedAtNow(r)

\* err != nil: task.Status = TaskStatus{State: "failed", ...}, written through
\* the pointer without the lock.
ProcessTask_FailStatus(r) ==
    /\ pc[r] = "failStatus"
    /\ heap' = [heap EXCEPT ![r].state = "failed",
                            ![r].message =
                                <<"Failed to generate pathways: " \o loc[r].err>>]
    /\ pc' = [pc EXCEPT ![r] = "lock2"]
    /\ UNCHANGED <<tasks, mu, apiKey, nreq, nuuid, req, loc, resp, wlog>>
    /\ UpdatedAtNow(r)

\* Mutant: the status message is attached but the state is left as it was.
Mutant_OkStatus_StaysWorking(r) ==
    /\ pc[r] = "okStatus"
    /\ heap' = [heap EXCEPT ![r].message = <<loc[r].responseText>>]
    /\ pc' = [pc EXCEPT ![r] = "okArtifacts"]
    /\ UNCHANGED <<tasks, mu, apiKey, nreq, nuuid, req, loc, resp, wlog>>
    /\ UNCHANGED <<clock, times>>

\* task.Status = TaskStatus{State: "completed", ...}, without the lock.
ProcessTask_OkStatus(r) ==
    /\ pc[r] = "okStatus"
    /\ heap' = [heap EXCEPT ![r].state = "completed",
                            ![r].message = <<loc[r].responseText>>]
    /\ pc' = [pc EXCEPT ![r] = "okArtifacts"]
    /\ UNCHANGED <<tasks, mu, apiKey, nreq, nuuid, req, loc, resp, wlog>>
    /\ UNCHANGED <<clock, times>>

\* Mutant: the artifact carries a title instead of the generated text.
Mutant_OkArtifacts_TitleOnly(r) ==
    /\ pc[r] = "okArtifacts"
    /\ heap' = [heap EXCEPT ![r].artifacts =
                  <<[name |-> ArtifactName, text |-> ArtifactName]>>]
    /\ pc' = [pc EXCEPT ![r] = "lock2"]
    /\ UNCHANGED <<tasks, mu, apiKey, nreq, nuuid, req, loc, resp, wlog>>
    /\ UpdatedAtNow(r)

\* task.Artifacts = []Artifact{...}, a statement after the status, without
\* the lock.
ProcessTask_OkArtifacts(r) ==
    /\ pc[r] = "okArtifacts"
    /\ heap' = [heap EXCEPT ![r].artifacts =
                  <<[name |-> ArtifactName, text |-> loc[r].responseText]>>]
    /\ pc' = [pc EXCEPT ![r] = "lock2"]
    /\ UNCHANGED <<tasks, mu, apiKey, nreq, nuuid, req, loc, resp, wlog>>
    /\ UpdatedAtNow(r)

\* Mutant: the second Lock is taken with the lock still counted as held by
\* the caller, so it never returns.
Mutant_Lock2_SelfDeadlock(r) ==
    /\ pc[r] = "lock2"
    /\ mu.writer = r
    /\ Lock(r)
    /\ pc' = [pc EXCEPT ![r] = "store2"]
    /\ UNCHANGED <<tasks, heap, clock, times, apiKey, nreq, nuuid, req, loc, resp, wlog>>

\* a.mu.Lock() before the terminal store write (either branch).
ProcessTask_Lock2(r) ==
    /\ pc[r] = "lock2"
    /\ Lock(r)
    /\ pc' = [pc EXCEPT ![r] = "store2"]
    /\ UNCHANGED <<tasks, heap, clock, times, apiKey, nreq, nuuid, req, loc, resp, wlog>>

\* The requests that have made their terminal write under the task id i.
TerminalWriters(i) == { q \in Requests : heap[q].id = i /\ Len(wlog[q]) = 2 }

\* Mutant: the terminal write also appends the artifacts to the task once more.
Mutant_Store2_AppendsArtifacts(r) ==
    /\ pc[r] = "store2"
    /\ tasks' = Put(loc[r].taskID, r)
    /\ heap' = [heap EXCEPT ![r].artifacts = @ \o @]
    /\ wlog' = [wlog EXCEPT ![r] = Append(@, heap[r].state)]
    /\ loc' = [loc EXCEPT ![r].wroteAfter = TerminalWriters(loc[r].taskID)]
    /\ Unlock(r)
    /\ pc' = [pc EXCEPT ![r] = "return"]
    /\ UNCHANGED <<apiKey, nreq, nuuid, req, resp>>
    /\ UNCHANGED <<clock, times>>

\* Mutant: the terminal write of a failed task removes the entry.
Mutant_Store2_DropsFailed(r) ==
    /\ pc[r] = "store2"
    /\ tasks' = IF heap[r].state = "failed"
                THEN [i \in (DOMAIN tasks) \ {loc[r].taskID} |-> tasks[i]]
                ELSE Put(loc[r].taskID, r)
    /\ wlog' = [wlog EXCEPT ![r] = Append(@, heap[r].state)]
    /\ loc' = [loc EXCEPT ![r].wroteAfter = TerminalWriters(loc[r].taskID)]
    /\ Unlock(r)
    /\ pc' = [pc EXCEPT ![r] = "return"]
    /\ UNCHANGED <<heap, clock, times, apiKey, nreq, nuuid, req, resp>>

\* Mutant: the terminal write leaves an entry another request has put under
\* the id as it is.
Mutant_Store2_KeepsExisting(r) ==
    /\ pc[r] = "store2"
    /\ tasks' = IF tasks[loc[r].taskID] # r THEN tasks ELSE Put(loc[r].taskID, r)
    /\ wlog' = [wlog EXCEPT ![r] = Append(@, heap[r].state)]
    /\ loc' = [loc EXCEPT ![r].wroteAfter = TerminalWriters(loc[r].taskID)]
    /\ Unlock(r)
    /\ pc' = [pc EXCEPT ![r] = "return"]
    /\ UNCHANGED <<heap, clock, times, apiKey, nreq, nuuid, req, resp>>

\* a.tasks[taskID] = task; a.mu.Unlock() of the terminal write.
ProcessTask_Store2(r) ==
    /\ pc[r] = "store2"
    /\ tasks' = Put(loc[r].taskID, r)
    /\ wlog' = [wlog EXCEPT ![r] = Append(@, heap[r].state)]
    /\ loc' = [loc EXCEPT ![r].wroteAfter = TerminalWriters(loc[r].taskID)]
    /\ Unlock(r)
    /\ pc' = [pc EXCEPT ![r] = "return"]
    /\ UNCHANGED <<heap, clock, times, apiKey, nreq, nuuid, req, resp>>

\* Mutant: the caller ignores err and answers with the task.
Mutant_Return_AlwaysResult(r) ==
    /\ pc[r] = "return"
    /\ sendSuccess(r, heap[r], req[r].rpcid)
    /\ UNCHANGED <<tasks, heap, clock, times, mu, apiKey, nreq, nuuid, req, loc, wlog>>

\* Mutant: on an error the caller rewrites the status message of the task it
\* got back.
Mutant_Return_TouchesTask(r) ==
    /\ pc[r] = "return"
    /\ IF loc[r].err # ""
       THEN /\ sendError(r, loc[r].err, CodeInternalError, "Internal error",
                         req[r].rpcid)
            /\ heap' = [heap EXCEPT ![r].message = <<loc[r].err>>]
       ELSE /\ sendSuccess(r, heap[r], req[r].rpcid)
            /\ UNCHANGED heap
    /\ UNCHANGED <<tasks, mu, apiKey, nreq, nuuid, req, loc, wlog>>
    /\ UNCHANGED <<clock, times>>

\* Mutant: the caller answers with a copy of the task taken before the
\* artifacts were attached.
Mutant_Return_StaleCopy(r) ==
    /\ pc[r] = "return"
    /\ IF loc[r].err # ""
       THEN sendError(r, loc[r].err, CodeInternalError, "Internal error", req[r].rpcid)
       ELSE sendSuccess(r, [heap[r] EXCEPT !.artifacts = <<>>], req[r].rpcid)
    /\ UNCHANGED <<tasks, heap, clock, times, mu, apiKey, nreq, nuuid, req, loc, wlog>>

\* ProcessTask returns (task, err) and its caller answers: an error response
\* when err != nil, the task as the result otherwise.
ProcessTask_Return(r) ==
    /\ pc[r] = "return"
    /\ IF loc[r].err # ""
       THEN sendError(r, loc[r].err, CodeInternalError, "Internal error", req[r].rpcid)
       ELSE sendSuccess(r, heap[r], req[r].rpcid)
    /\ UNCHANGED <<tasks, heap, clock, times, mu, apiKey, nreq, nuuid, req, loc, wlog>>

-----------------------------------------------------------------------------
(* GetTask and the encoding of its result *)

\* a.mu.RLock()
GetTask_RLock(r) ==
    /\ pc[r] = "rlock"
    /\ RLock(r)
    /\ pc' = [pc EXCEPT ![r] = "lookup"]
    /\ UNCHANGED <<tasks, heap, clock, times, apiKey, nreq, nuuid, req, loc, resp, wlog>>

\* Mutant: the lookup ignores "exists" and hands out the zero task.
Mutant_Lookup_IgnoresExists(r) ==
    /\ pc[r] = "lookup"
    /\ RUnlock(r)
    /\ IF loc[r].taskID \notin DOMAIN tasks
       THEN /\ sendSuccess(r, NilTask, req[r].rpcid)
            /\ UNCHANGED loc
       ELSE /\ loc' = [loc EXCEPT ![r].got = tasks[loc[r].taskID]]
            /\ pc' = [pc EXCEPT ![r] = "encodeStatus"]
            /\ UNCHANGED resp
    /\ UNCHANGED <<tasks, heap, clock, times, apiKey, nreq, nuuid, req, wlog>>

\* Mutant: the lookup of an unknown id puts an empty task under it.
Mutant_Lookup_CreatesMissing(r) ==
    /\ pc[r] = "lookup"
    /\ RUnlock(r)
    /\ IF loc[r].taskID \notin DOMAIN tasks
       THEN /\ tasks' = Put(loc[r].taskID, r)
            /\ sendError(r, TaskNotFound(loc[r].taskID), CodeInvalidParams,
                         TaskNotFound(loc[r].taskID), req[r].rpcid)
            /\ UNCHANGED loc
       ELSE /\ loc' = [loc EXCEPT ![r].got = tasks[loc[r].taskID]]
            /\ pc' = [pc EXCEPT ![r] = "encodeStatus"]
            /\ UNCHANGED <<tasks, resp>>
    /\ UNCHANGED <<heap, clock, times, apiKey, nreq, nuuid, req, wlog>>

\* task, exists := a.tasks[taskID]; the deferred RUnlock; and, for an unknown
\* id, the error response of handleTasksGet.
GetTask_Lookup(r) ==
    /\ pc[r] = "lookup"
    /\ RUnlock(r)
    /\ IF loc[r].taskID \notin DOMAIN tasks
       THEN /\ sendError(r, TaskNotFound(loc[r].taskID), CodeInvalidParams,
                         TaskNotFound(loc[r].taskID), req[r].rpcid)
            /\ UNCHANGED loc
       ELSE /\ loc' = [loc EXCEPT ![r].got = tasks[loc[r].taskID]]
            /\ pc' = [pc EXCEPT ![r] = "encodeStatus"]
            /\ UNCHANGED resp
    /\ UNCHANGED <<tasks, heap, clock, times, apiKey, nreq, nuuid, req, wlog>>

\* sendSuccess encodes the task behind the pointer, after RUnlock: the id and
\* the status are read first ...
sendSuccess_Status(r) ==
    /\ pc[r] = "encodeStatus"
    /\ loc' = [loc EXCEPT ![r].status = heap[loc[r].got]]
    /\ pc' = [pc EXCEPT ![r] = "encodeArtifacts"]
    /\ UNCHANGED <<tasks, heap, clock, times, mu, apiKey, nreq, nuuid, req, resp, wlog>>

\* ... and the artifacts after it; the response is then written.
sendSuccess_Artifacts(r) ==
    /\ pc[r] = "encodeArtifacts"
    /\ sendSuccess(r, [loc[r].status EXCEPT !.artifacts = heap[loc[r].got].artifacts],
                   req[r].rpcid)
    /\ UNCHANGED <<tasks, heap, clock, times, mu, apiKey, nreq, nuuid, req, loc, wlog>>

-----------------------------------------------------------------------------
(* Specification *)

\* The steps of the goroutine of request r once the request is decoded.
Step(r) ==
    \/ ProcessTask_Lock1(r)
    \/ ProcessTask_Store1(r)
    \/ ProcessTask_Generate(r)
    \/ ProcessTask_FailStatus(r)
    \/ ProcessTask_OkStatus(r)
    \/ ProcessTask_OkArtifacts(r)
    \/ ProcessTask_Lock2(r)
    \/ ProcessTask_Store2(r)
    \/ ProcessTask_Return(r)
    \/ GetTask_RLock(r)
    \/ GetTask_Lookup(r)
    \/ sendSuccess_Status(r)
    \/ sendSuccess_Artifacts(r)

\* HandlePlanner decodes request r and routes it.
HandlePlanner(r) ==
    \/ ParseError(r)
    \/ MethodNotFound(r)
    \/ handleTasksSend(r, QueryParams)
    \/ handleMessage(r, QueryParams)
    \/ handleTasksGet(r)

Next == \E r \in Requests : HandlePlanner(r) \/ Step(r)

Spec == Init /\ [][Next]_vars

\* One client that sends its next request when the previous one has been
\* answered, with send requests of every shape.
Quiet == \A q \in Requests : pc[q] \in {"idle", "done"}

SeqHandlePlanner(r) ==
    /\ Quiet
    /\ \/ ParseError(r)
       \/ MethodNotFound(r)
       \/ handleTasksSend(r, SendParams)
       \/ handleMessage(r, SendParams)
       \/ handleTasksGet(r)

SeqNext == \E r \in Requests : SeqHandlePlanner(r) \/ Step(r)

SeqSpec == Init /\ [][SeqNext]_vars

\* The extractor by itself: ProcessTask has been called with a message and
\* stands before the extraction of the query; the step extracts the query
\* and parses it.
ParseInit ==
    /\ tasks = [i \in {} |-> 0]
    /\ heap = [r \in Requests |-> NilTask]
    /\ mu = [writer |-> 0, readers |-> {}]
    /\ apiKey = TRUE
    /\ nreq = 0
    /\ nuuid = 0
    /\ req = [r \in Requests |-> NoRequest]
    /\ pc = [r \in Requests |-> "extract"]
    /\ loc \in [Requests -> { [NoLocals EXCEPT !.message = m] : m \in ParseMessages }]
    /\ resp = [r \in Requests |-> NoResponse]
    /\ wlog = [r \in Requests |-> <<>>]
    /\ clock = StoppedClock
    /\ times = [r \in Requests |-> NoTimes]

ProcessTask_Extract(r) ==
    /\ pc[r] = "extract"
    /\ \E profile \in Profiles[loc[r].message] :
          loc' = [loc EXCEPT ![r].query = UserQueries[loc[r].message],
                            ![r].profile = profile]
    /\ pc' = [pc EXCEPT ![r] = "extracted"]
    /\ UNCHANGED <<tasks, heap, clock, times, mu, apiKey, nreq, nuuid, req, resp, wlog>>

ParseNext == \E r \in Requests : ProcessTask_Extract(r)

ParseSpec == ParseInit /\ [][ParseNext]_vars

\* The server with its clock running: one client, whose requests are
\* answered one after the other.
TimeInit ==
    /\ tasks = [i \in {} |-> 0]
    /\ heap = [r \in Requests |-> NilTask]
    /\ mu = [writer |-> 0, readers |-> {}]
    /\ apiKey \in BOOLEAN
    /\ nreq = 0
    /\ nuuid = 0
    /\ req = [r \in Requests |-> NoRequest]
    /\ pc = [r \in Requests |-> "idle"]
    /\ loc = [r \in Requests |-> NoLocals]
    /\ resp = [r \in Requests |-> NoResponse]
    /\ wlog = [r \in Requests |-> <<>>]
    /\ clock = RunningClock
    /\ times = [r \in Requests |-> NoTimes]

TimeHandlePlanner(r) ==
    /\ Quiet
    /\ \/ ParseError(r)
       \/ MethodNotFound(r)
       \/ handleTasksSend(r, QueryParams)
       \/ handleMessage(r, QueryParams)
       \/ handleTasksGet(r)

TimeNext == \E r \in Requests : TimeHandlePlanner(r) \/ Step(r)

TimeSpec == TimeInit /\ [][TimeNext]_vars

\* Every decoded request keeps running (the Go scheduler is fair to runnable
\* goroutines) and every generator call returns; clients need not send.
LiveSpec == Spec /\ \A r \in Requests : WF_vars(Step(r))


-----------------------------------------------------------------------------
(* Vocabulary of the properties *)

Terminal == {"completed", "failed"}
SendMethods == {"tasks/send", "message/send"}

\* Request r reached ProcessTask (its Task object exists).
Processed(r) == heap[r].state # ""

\* Request r is a send request whose generator call failed.
GeneratorFailed(r) == req[r].method \in SendMethods /\ loc[r].err # ""

\* Request r is a tasks/get that has been answered with a task.
GetAnswered(r) ==
    pc[r] = "done" /\ req[r].method = "tasks/get" /\ resp[r].kind = "result"

\* The task a.tasks holds under id i (i in the map).
Stored(i) == heap[tasks[i]]

\* ProcessTask of r has made its terminal store write.
TerminalWritten(r) == Len(wlog[r]) = 2

-----------------------------------------------------------------------------
(* C1 *)

\* C1 as stated: a send request whose generator call failed is answered with
\* a success response whose result is the task in state failed.
C1_FailureAnsweredWithResult ==
    \A r \in Requests :
        (pc[r] = "done" /\ GeneratorFailed(r)) =>
            (resp[r].kind = "result" /\ resp[r].task.state = "failed")

\* C1 amended: a send request whose generator call failed has written its
\* task to the store in state failed, and is answered with an error response
\* of code -32603 "Internal error" whose data is the generator's error; it
\* carries no result.
C1_FailureAnsweredWithInternalError ==
    \A r \in Requests :
        (pc[r] = "done" /\ GeneratorFailed(r)) =>
            /\ resp[r].kind = "error"
            /\ resp[r].code = CodeInternalError
            /\ resp[r].message = "Internal error"
            /\ resp[r].data = loc[r].err
            /\ resp[r].task = NilTask
            /\ heap[r].state = "failed"
            /\ wlog[r] = <<"working", "failed">>

C1_Witness ==
    \E r \in Requests :
        pc[r] = "done" /\ GeneratorFailed(r) /\ req[r].method = "message/send"

-----------------------------------------------------------------------------
(* C2 *)

\* C2 as stated: the state of the task stored under an id only moves forward,
\* and once that task is completed or failed nothing stored under the id
\* changes any more.
C2_StoredTaskFrozenOnceTerminal ==
    [][\A i \in DOMAIN tasks :
          /\ Stored(i).state = "working" =>
                Stored(i)'.state \in {"working"} \cup Terminal
          /\ Stored(i).state \in Terminal => Stored(i)' = Stored(i)]_vars

\* C2 amended: the state of every Task object only moves forward (working to
\* completed or to failed), its id never changes, and after the terminal
\* store write of the request that created it the object never changes; the
\* entry under an id changes only when a ProcessTask call for that very id
\* stores its own task.
C2_TaskObjectMovesForward ==
    [][/\ \A r \in Requests :
            /\ heap[r].state = "working" =>
                  heap'[r].state \in {"working"} \cup Terminal
            /\ heap[r].state \in Terminal => heap'[r].state = heap[r].state
            /\ Processed(r) => heap'[r].id = heap[r].id
            /\ TerminalWritten(r) => heap'[r] = heap[r]
       /\ \A i \in DOMAIN tasks :
            /\ i \in DOMAIN tasks'
            /\ tasks'[i] # tasks[i] =>
                  /\ pc[tasks'[i]] \in {"store1", "store2"}
                  /\ heap[tasks'[i]].id = i]_vars

\* A second send request has replaced a finished task under the same id.
C2_Witness ==
    \E r, q \in Requests :
        /\ r # q
        /\ TerminalWritten(r)
        /\ heap[q].id = heap[r].id
        /\ tasks[heap[r].id] = q
        /\ heap[q].state = "working"

-----------------------------------------------------------------------------
(* C3 *)

\* C3 as stated: a tasks/get never returns state completed with an empty
\* artifacts list, and never reads state completed or failed from a task
\* whose ProcessTask call has not yet made its terminal store write.
C3_GetObservesOnlyStoredValues ==
    \A g \in Requests :
        /\ (GetAnswered(g) /\ resp[g].task.state = "completed") =>
                resp[g].task.artifacts # <<>>
        /\ (pc[g] = "encodeArtifacts" /\ loc[g].status.state \in Terminal) =>
                TerminalWritten(loc[g].got)

-----------------------------------------------------------------------------
(* C4 *)

AfterFirstWrite ==
    {"generate", "failStatus", "okStatus", "okArtifacts", "lock2", "store2", "return"}

\* C4: when ProcessTask is in (or past) the generator call its task has been
\* written once, in state working, and is in the map; and every GetTask
\* lookup of an id that a ProcessTask call between its first write and its
\* return is working on finds a task.
C4_WorkingVisibleDuringProcessing ==
    /\ [](\A r \in Requests :
            pc[r] = "generate" =>
                /\ wlog[r] = <<"working">>
                /\ loc[r].taskID \in DOMAIN tasks)
    /\ [][\A g, r \in Requests :
            (/\ pc[g] = "lookup"
             /\ pc'[g] # "lookup"
             /\ pc[r] \in AfterFirstWrite
             /\ loc[r].taskID = loc[g].taskID)
                => (pc'[g] = "encodeStatus" /\ loc'[g].got # 0)]_vars

\* A lookup has found the task of a request that is inside the generator call.
C4_Witness ==
    \E g, r \in Requests :
        /\ pc[g] = "encodeStatus"
        /\ loc[g].got = r
        /\ pc[r] = "generate"

-----------------------------------------------------------------------------
(* C5 *)

\* C5: a ProcessTask call has made no store write before its first lock, one
\* write (of the task in state working) from then until its terminal write,
\* and exactly two when it returns: working, then completed on the success
\* branch or failed on the failure branch.
C5_ExactlyTwoStoreWrites ==
    \A r \in Requests :
        Processed(r) =>
            /\ pc[r] \in {"lock1", "store1"} => wlog[r] = <<>>
            /\ pc[r] \in AfterFirstWrite \ {"return"} => wlog[r] = <<"working">>
            /\ pc[r] \in {"return", "done"} =>
                  wlog[r] = <<"working", IF loc[r].err # "" THEN "failed" ELSE "completed">>

\* Both branches have returned.
C5_Witness ==
    \E r, q \in Requests :
        /\ pc[r] = "done" /\ Processed(r) /\ loc[r].err # ""
        /\ pc[q] = "done" /\ Processed(q) /\ loc[q].err = ""


-----------------------------------------------------------------------------
(* C6 *)

\* C6: a request inside the generator call holds the lock neither exclusively
\* nor shared; whoever holds the lock is at the map statement it guards (the
\* store of ProcessTask, the lookup of GetTask), which never blocks, so the
\* lock is always released by a step of its holder alone.
C6_NoLockAcrossGenerator ==
    /\ \A r \in Requests :
          pc[r] = "generate" => (mu.writer # r /\ r \notin mu.readers)
    /\ mu.writer # 0 => pc[mu.writer] \in {"store1", "store2"}
    /\ \A r \in mu.readers : pc[r] = "lookup"

\* While one request is inside the generator call, another one holds the
\* lock.
C6_Witness ==
    \E r, q \in Requests :
        /\ pc[r] = "generate"
        /\ q # r
        /\ (mu.writer = q \/ q \in mu.readers)

-----------------------------------------------------------------------------
(* C7 *)

\* C7 as stated: when ProcessTask returns, the returned task is completed or
\* failed and the task stored under its id is in that same terminal state.
C7_StoredIsReturnedStateAtReturn ==
    \A r \in Requests :
        pc[r] = "return" =>
            /\ heap[r].state \in Terminal
            /\ Stored(loc[r].taskID).state = heap[r].state

\* C7 amended: when ProcessTask returns, the returned task is completed (no
\* error) or failed (error); the task stored under its id is that very task,
\* unless another send request used the same id and stored its own task
\* there, which may still be working.
C7_ReturnedTaskTerminalAtReturn ==
    \A r \in Requests :
        pc[r] = "return" =>
            /\ heap[r].state = (IF loc[r].err # "" THEN "failed" ELSE "completed")
            /\ loc[r].taskID \in DOMAIN tasks
            /\ \/ tasks[loc[r].taskID] = r
               \/ \E q \in Requests \ {r} :
                     /\ tasks[loc[r].taskID] = q
                     /\ req[q].method \in SendMethods
                     /\ heap[q].id = loc[r].taskID
                     /\ Len(wlog[q]) >= 1

\* ProcessTask returns its task while the same id holds another request's
\* working task.
C7_Witness ==
    \E r \in Requests :
        /\ pc[r] = "return"
        /\ tasks[loc[r].taskID] # r
        /\ Stored(loc[r].taskID).state = "working"

-----------------------------------------------------------------------------
(* C8 *)

\* Request r has written its task to the store (in state working).
WrittenWorking(r) == Len(wlog[r]) >= 1

\* The task of request r is completed or failed, and stored so.
ReachedTerminal(r) == heap[r].state \in Terminal /\ TerminalWritten(r)

\* C8: under LiveSpec, every task written to the store in state working
\* eventually is completed or failed, with that state written to the store.
\* A written task stays written and a terminal task stays terminal (second
\* conjunct), so "again and again every written task is terminal" (first
\* conjunct) says that each written task becomes terminal and remains so:
\* no task stays working forever.
C8_WorkingEventuallyTerminal ==
    /\ []<>(\A r \in Requests : WrittenWorking(r) => ReachedTerminal(r))
    /\ [][\A r \in Requests :
            /\ WrittenWorking(r) => WrittenWorking(r)'
            /\ ReachedTerminal(r) => ReachedTerminal(r)']_vars

\* A task written as working has reached each terminal state.
C8_Witness ==
    \E r, q \in Requests :
        /\ wlog[r] = <<"working", "completed">>
        /\ wlog[q] = <<"working", "failed">>

-----------------------------------------------------------------------------
(* C9 *)

\* No ProcessTask call has ever stored a task under id i.
NeverStored(i) == \A r \in Requests : wlog[r] = <<>> \/ loc[r].taskID # i

\* C9: a tasks/get (with decodable params) for an id under which no task was
\* ever stored is answered with an error of code -32602 whose message and
\* data are "task not found: <id>", and with no task.
C9_UnknownIdIsNotFound ==
    \A g \in Requests :
        (/\ pc[g] = "done"
         /\ req[g].method = "tasks/get"
         /\ req[g].params.valid
         /\ NeverStored(req[g].params.id)) =>
            /\ resp[g].kind = "error"
            /\ resp[g].code = CodeInvalidParams
            /\ resp[g].message = TaskNotFound(req[g].params.id)
            /\ resp[g].data = TaskNotFound(req[g].params.id)
            /\ resp[g].task = NilTask

\* A tasks/get for the caller's id was answered while nothing was stored
\* under it.
C9_Witness ==
    \E g \in Requests :
        /\ pc[g] = "done"
        /\ req[g].method = "tasks/get"
        /\ req[g].params.id \in CallerIds
        /\ NeverStored(req[g].params.id)
        /\ resp[g].code = CodeInvalidParams

-----------------------------------------------------------------------------
(* C10 *)

-----------------------------------------------------------------------------
(* C11: the id of the response *)

\* C11 as stated: every response to a request carries the id the client put
\* in the request, success, error and parse failure alike.
C11_ResponseIdIsRequestId ==
    \A r \in Requests : pc[r] = "done" => resp[r].id = req[r].rpcid

\* C11: every response to a request whose body decoded, and every parse
\* error answering a well-formed body with a mistyped field, carries the id
\* of the request; the parse error answering a body that is not well-formed
\* JSON carries a null id, whatever id the client wrote in it.
C11_ResponseIdIsDecodedId ==
    \A r \in Requests :
        pc[r] = "done" =>
            /\ resp[r].kind \in {"result", "error"}
            /\ req[r].body # "syntax" => resp[r].id = req[r].rpcid
            /\ req[r].body = "syntax" =>
                  /\ resp[r].id = NullId
                  /\ resp[r].code = CodeParseError
            /\ req[r].body \in BadBodies <=> resp[r].code = CodeParseError

\* A malformed body answered with a null id, and a mistyped one answered
\* with the id of its request.
C11_Witness ==
    \E r, q \in Requests :
        /\ pc[r] = "done" /\ req[r].body = "syntax"
        /\ resp[r].id = NullId /\ req[r].rpcid # NullId
        /\ pc[q] = "done" /\ req[q].body = "badtype"
        /\ resp[q].id = req[q].rpcid

-----------------------------------------------------------------------------
(* C12: messages without text *)

\* The message a send request hands to ProcessTask: the message of the
\* wrapper, or the params themselves when message/send finds none in it.
HasContent(m) == m.role # "" \/ Len(m.parts) > 0

SentMessage(rq) ==
    IF rq.method = "message/send" /\ ~HasContent(rq.params.message)
    THEN [role |-> rq.params.role, parts |-> rq.params.parts]
    ELSE rq.params.message

NoTextParts(m) == \A k \in 1..Len(m.parts) : m.parts[k].type # "text"

\* A decoded send request carrying a message (a role or at least one part)
\* none of whose parts is of type text.
TextlessSend(r) ==
    /\ req[r].method \in SendMethods
    /\ req[r].body = "ok"
    /\ req[r].params.valid
    /\ HasContent(SentMessage(req[r]))
    /\ NoTextParts(SentMessage(req[r]))

-----------------------------------------------------------------------------
(* C13: sends under distinct ids *)

\* Every request received so far is a send request that succeeded and has
\* been answered, and no two of them ran under the same task id.
AllSucceededDistinct ==
    /\ nreq >= 1
    /\ \A r \in 1..nreq :
          /\ pc[r] = "done"
          /\ Processed(r)
          /\ loc[r].err = ""
          /\ \A q \in 1..nreq : q # r => heap[q].id # heap[r].id

\* C13: when N send requests with pairwise distinct task ids, running
\* concurrently, have all succeeded, the store holds exactly N tasks; each
\* can be looked up under its id, is the task its request was answered with,
\* is completed and carries one artifact whose text is the generator's
\* answer to that request.
C13_DistinctIdsAllStored ==
    AllSucceededDistinct =>
        /\ Cardinality(DOMAIN tasks) = nreq
        /\ \A r \in 1..nreq :
              /\ heap[r].id \in DOMAIN tasks
              /\ tasks[heap[r].id] = r
              /\ Stored(heap[r].id).state = "completed"
              /\ Stored(heap[r].id).artifacts =
                     <<[name |-> ArtifactName, text |-> GeneratedText(r)]>>
              /\ loc[r].responseText = GeneratedText(r)
              /\ resp[r].kind = "result"
              /\ resp[r].task = Stored(heap[r].id)

\* As many successful sends as the server receives requests, under a
\* caller's id and under generated ids.
C13_Witness ==
    /\ AllSucceededDistinct
    /\ nreq = MaxRequests
    /\ \E r \in Requests : heap[r].id \in CallerIds
    /\ \E r \in Requests : heap[r].id \notin CallerIds

-----------------------------------------------------------------------------
(* C14: unknown methods *)

KnownMethods == {"tasks/send", "tasks/get", "message/send"}

\* Request r is decoded in this step and names a method the switch on
\* req.Method has no case for.
UnknownMethodArrives(r) ==
    /\ pc[r] = "idle"
    /\ pc'[r] # "idle"
    /\ req'[r].body = "ok"
    /\ req'[r].method \notin KnownMethods

\* C14: a request naming a method other than tasks/send, tasks/get and
\* message/send is answered, in the step that decodes it, with the error
\* -32601 "Method not found" under its own id; no handler runs for it (no
\* task object, no task id, no local of a handler, no lock) and the store is
\* as it was.
C14_UnknownMethodLeavesStore ==
    [][\A r \in Requests :
          UnknownMethodArrives(r) =>
              /\ pc'[r] = "done"
              /\ resp'[r].kind = "error"
              /\ resp'[r].code = CodeMethodNotFound
              /\ resp'[r].message = "Method not found"
              /\ resp'[r].id = req'[r].rpcid
              /\ tasks' = tasks
              /\ heap' = heap
              /\ wlog' = wlog
              /\ mu' = mu
              /\ nuuid' = nuuid
              /\ loc' = loc]_vars

\* An unknown method has been answered while the store held a task.
C14_Witness ==
    \E r \in Requests :
        /\ pc[r] = "done"
        /\ req[r].body = "ok"
        /\ req[r].method \notin KnownMethods
        /\ resp[r].code = CodeMethodNotFound
        /\ DOMAIN tasks # {}

-----------------------------------------------------------------------------
(* C15: tasks/send without a message *)

\* A decoded tasks/send whose params carry no message: neither a role nor
\* a part.
MessagelessTasksSend(r) ==
    /\ req[r].method = "tasks/send"
    /\ req[r].body = "ok"
    /\ req[r].params.valid
    /\ ~HasContent(req[r].params.message)

\* C15: a tasks/send whose params carry no message is rejected with the
\* invalid-params error and creates no task, with or without an id in the
\* params.
C15_MessagelessSendRejected ==
    \A r \in Requests :
        MessagelessTasksSend(r) =>
            /\ pc[r] = "done"
            /\ resp[r].kind = "error"
            /\ resp[r].code = CodeInvalidParams
            /\ ~Processed(r)
            /\ \A i \in DOMAIN tasks : tasks[i] # r

-----------------------------------------------------------------------------
(* C16: generated task ids *)

\* The send request rq names no task id: its params have none, or they are
\* the bare message of a message/send.
IdOmitted(rq) ==
    /\ rq.method \in SendMethods
    /\ \/ rq.params.id = ""
       \/ rq.method = "message/send" /\ ~HasContent(rq.params.message)

\* C16: a send request without an id runs under a generated id that is not
\* empty, that no task in the store has and that no other request holds;
\* its first store write therefore adds an entry and changes no other, and
\* its second write replaces its own entry only: it never overwrites the
\* task of another request.
C16_GeneratedIdIsFresh ==
    [][\A r \in Requests :
          /\ (pc[r] = "idle" /\ pc'[r] = "lock1" /\ IdOmitted(req'[r])) =>
                /\ heap'[r].id # ""
                /\ heap'[r].id = loc'[r].taskID
                /\ heap'[r].id \notin DOMAIN tasks
                /\ \A q \in Requests \ {r} :
                      /\ heap[q].id # heap'[r].id
                      /\ loc[q].taskID # heap'[r].id
          /\ (pc[r] = "store1" /\ pc'[r] = "generate" /\ IdOmitted(req[r])) =>
                /\ heap[r].id \notin DOMAIN tasks
                /\ DOMAIN tasks' = DOMAIN tasks \cup {heap[r].id}
                /\ tasks'[heap[r].id] = r
                /\ \A i \in DOMAIN tasks : tasks'[i] = tasks[i]
          /\ (pc[r] = "store2" /\ pc'[r] = "return" /\ IdOmitted(req[r])) =>
                /\ tasks[heap[r].id] = r
                /\ tasks' = tasks]_vars

\* Two send requests without an id have been answered; each is stored under
\* its own generated id.
C16_Witness ==
    \E r, q \in Requests :
        /\ r # q
        /\ IdOmitted(req[r]) /\ IdOmitted(req[q])
        /\ pc[r] = "done" /\ pc[q] = "done"
        /\ Processed(r) /\ Processed(q)
        /\ heap[r].id # heap[q].id
        /\ tasks[heap[r].id] = r
        /\ tasks[heap[q].id] = q

-----------------------------------------------------------------------------
(* C17: the task of a send response and the stored task *)

\* Request r is answered with a task in this step.
AnsweredWithTask(r) ==
    /\ pc[r] = "return"
    /\ pc'[r] = "done"
    /\ resp'[r].kind = "result"

\* C17 as stated: at the moment a send request is answered with a task, that
\* task is the task stored under its id, whatever other request is in flight.
C17_ReturnedIsStored ==
    [][\A r \in Requests :
          AnsweredWithTask(r) =>
              /\ tasks[resp'[r].task.id] = r
              /\ resp'[r].task = Stored(resp'[r].task.id)]_vars

\* C17 amended: the task a send request is answered with is the Task object
\* its own ProcessTask call created, as it stands after its terminal write.
\* It is the task stored under its id when no other send request uses that
\* id; otherwise the entry may already hold the task of such a request,
\* written after the terminal write of this one.
C17_ReturnedIsOwnTask ==
    [][\A r \in Requests :
          AnsweredWithTask(r) =>
              /\ resp'[r].task = heap[r]
              /\ resp'[r].task.id = loc[r].taskID
              /\ resp'[r].task.state = "completed"
              /\ resp'[r].task.artifacts =
                     <<[name |-> ArtifactName, text |-> loc[r].responseText]>>
              /\ TerminalWritten(r)
              /\ loc[r].taskID \in DOMAIN tasks
              /\ (\A q \in Requests \ {r} : heap[q].id # heap[r].id) =>
                    /\ tasks[loc[r].taskID] = r
                    /\ resp'[r].task = Stored(loc[r].taskID)
              /\ tasks[loc[r].taskID] # r =>
                    \E q \in Requests \ {r} :
                        /\ tasks[loc[r].taskID] = q
                        /\ req[q].method \in SendMethods
                        /\ heap[q].id = heap[r].id
                        /\ WrittenWorking(q)]_vars

\* A send request is about to be answered with its completed task while the
\* entry of its id holds the task of another request.
C17_Witness ==
    \E r \in Requests :
        /\ pc[r] = "return"
        /\ loc[r].err = ""
        /\ heap[r].state = "completed"
        /\ tasks[loc[r].taskID] # r
        /\ Stored(loc[r].taskID) # heap[r]

-----------------------------------------------------------------------------
(* C18: sends racing on one id *)

\* The send requests that ran under the task id i.
SendsUnder(i) == { r \in Requests : Processed(r) /\ heap[r].id = i }

\* The task request r has created, as its outcome determines it.
OutcomeTask(r) ==
    [id |-> loc[r].taskID,
     state |-> IF loc[r].err # "" THEN "failed" ELSE "completed",
     message |-> IF loc[r].err # ""
                 THEN <<"Failed to generate pathways: " \o loc[r].err>>
                 ELSE <<loc[r].responseText>>,
     artifacts |-> IF loc[r].err # "" THEN <<>>
                   ELSE <<[name |-> ArtifactName, text |-> loc[r].responseText]>>]

\* C18: when two (or more) send requests race on one task id, each makes
\* both of its store writes, and once all of them have been answered the
\* task stored under the id is terminal and is, whole, the task of the
\* request whose terminal write came last.
C18_LastTerminalWriterWins ==
    \A i \in DOMAIN tasks :
        (Cardinality(SendsUnder(i)) >= 2 /\ \A r \in SendsUnder(i) : pc[r] = "done") =>
            /\ \A r \in SendsUnder(i) : wlog[r] = <<"working", heap[r].state>>
            /\ \E r \in SendsUnder(i) :
                  /\ SendsUnder(i) \ {r} = loc[r].wroteAfter
                  /\ tasks[i] = r
                  /\ Stored(i).state \in Terminal
                  /\ Stored(i) = OutcomeTask(r)

\* Two sends under one id have been answered, one with the completed task
\* and one with an error, and the store holds the task of the one that
\* arrived first.
C18_Witness ==
    \E r, q \in Requests :
        /\ r < q
        /\ SendsUnder(loc[r].taskID) = {r, q}
        /\ pc[r] = "done" /\ pc[q] = "done"
        /\ heap[r].state # heap[q].state
        /\ q \in loc[r].wroteAfter
        /\ tasks[loc[r].taskID] = r

-----------------------------------------------------------------------------
(* C19: sends under distinct ids are independent *)

\* Request r is inside ProcessTask.
InProcessTask(r) == Processed(r) /\ pc[r] # "done"

LockHeld == mu.writer # 0 \/ mu.readers # {}

\* The statement request r stands at inside ProcessTask can be executed (a
\* request at the first store write holds the lock and goes on).
CanProceed(r) ==
    CASE pc[r] = "lock1" -> ENABLED ProcessTask_Lock1(r)
      [] pc[r] = "store1" -> mu.writer = r
      [] pc[r] = "generate" -> ENABLED ProcessTask_Generate(r)
      [] pc[r] = "failStatus" -> ENABLED ProcessTask_FailStatus(r)
      [] pc[r] = "okStatus" -> ENABLED ProcessTask_OkStatus(r)
      [] pc[r] = "okArtifacts" -> ENABLED ProcessTask_OkArtifacts(r)
      [] pc[r] = "lock2" -> ENABLED ProcessTask_Lock2(r)
      [] pc[r] = "store2" -> ENABLED ProcessTask_Store2(r)
      [] pc[r] = "return" -> ENABLED ProcessTask_Return(r)
      [] OTHER -> FALSE

\* C19: two concurrent send requests under distinct ids are independent.
\* While one is in its generator call the other can take its next step,
\* unless that step is a Lock and the lock is held at that moment (never by
\* the request in the generator call); so either of two requests in their
\* generator calls can return first and both orders of completion occur.
\* Once a request has been answered, the task stored under its id is the
\* one its own generator outcome determines, whatever the other did when.
C19_DistinctIdsIndependent ==
    \A r \in Requests :
        /\ \A q \in Requests \ {r} :
              (/\ InProcessTask(r) /\ InProcessTask(q)
               /\ heap[r].id # heap[q].id
               /\ pc[q] = "generate") =>
                  /\ mu.writer # q
                  /\ CanProceed(r) \/ (pc[r] \in {"lock1", "lock2"} /\ LockHeld)
        /\ (/\ Processed(r) /\ pc[r] = "done"
            /\ \A q \in Requests \ {r} : heap[q].id # heap[r].id) =>
                  /\ tasks[heap[r].id] = r
                  /\ Stored(heap[r].id) = OutcomeTask(r)

\* The request that arrived later has been answered, and its task stored,
\* while the one that arrived first is still in its generator call.
C19_Witness ==
    \E r, q \in Requests :
        /\ r < q
        /\ Processed(r) /\ Processed(q)
        /\ heap[r].id # heap[q].id
        /\ pc[r] = "generate"
        /\ pc[q] = "done"
        /\ Stored(heap[q].id) = OutcomeTask(q)
        /\ Stored(heap[r].id).state = "working"

-----------------------------------------------------------------------------
(* C20: tasks/get after a failed send *)

\* Request r is a send request whose generator failed and that has been
\* answered.
FailedAndAnswered(r) == GeneratorFailed(r) /\ pc[r] = "done"

\* The text of the status message of the failed task of request r: it ends
\* with the generator's error.
FailureText(r) == "Failed to generate pathways: " \o loc[r].err

\* C20 as stated: once a send whose generator failed has been answered, the
\* task a tasks/get finds under its id is failed and its status message
\* holds the generator's error.
C20_FailedTaskUnderItsId ==
    \A r \in Requests :
        FailedAndAnswered(r) =>
            /\ heap[r].id \in DOMAIN tasks
            /\ Stored(heap[r].id).state = "failed"
            /\ Stored(heap[r].id).message = <<FailureText(r)>>

\* C20 amended: once a send whose generator failed has been answered, and
\* for as long as no other send request has stored a task under the same id,
\* the entry of its id holds its task, failed, with the generator's error in
\* the status message and no artifact; a tasks/get that looks the id up then
\* finds that task, reads it so and is answered with it as the result under
\* its own id.
C20_GetReturnsFailedTask ==
    /\ [](\A r \in Requests :
            (FailedAndAnswered(r) /\ tasks[heap[r].id] = r) =>
                /\ Stored(heap[r].id) = OutcomeTask(r)
                /\ Stored(heap[r].id).state = "failed"
                /\ Stored(heap[r].id).message = <<FailureText(r)>>
                /\ Stored(heap[r].id).artifacts = <<>>
                /\ loc[r].err \in ApiErrors \cup {NoKeyError})
    /\ [][\A g, r \in Requests :
             FailedAndAnswered(r) =>
                 /\ (/\ pc[g] = "lookup" /\ pc'[g] # "lookup"
                     /\ loc[g].taskID = heap[r].id
                     /\ tasks[heap[r].id] = r) =>
                        /\ pc'[g] = "encodeStatus"
                        /\ loc'[g].got = r
                 /\ (/\ pc[g] = "encodeStatus" /\ pc'[g] # "encodeStatus"
                     /\ loc[g].got = r) =>
                        /\ loc'[g].status.state = "failed"
                        /\ loc'[g].status.message = <<FailureText(r)>>
                 /\ (/\ pc[g] = "encodeArtifacts" /\ pc'[g] # "encodeArtifacts"
                     /\ loc[g].got = r
                     /\ loc[g].status.state = "failed") =>
                        /\ resp'[g].kind = "result"
                        /\ resp'[g].id = req[g].rpcid
                        /\ resp'[g].task = OutcomeTask(r)]_vars

\* A tasks/get has been answered with the failed task of an earlier send,
\* its status message holding the generator's error.
C20_Witness ==
    \E g, r \in Requests :
        /\ r < g
        /\ FailedAndAnswered(r)
        /\ GetAnswered(g)
        /\ loc[g].got = r
        /\ resp[g].task.id = heap[r].id
        /\ resp[g].task.state = "failed"
        /\ resp[g].task.message = <<FailureText(r)>>
        /\ resp[r].data = loc[r].err

-----------------------------------------------------------------------------
(* C21: no API key *)

\* Request r is a decoded send request that its handler passes on to
\* ProcessTask.
AcceptedSend(r) ==
    /\ req[r].method \in SendMethods
    /\ req[r].body = "ok"
    /\ req[r].params.valid
    /\ req[r].method = "message/send" => HasContent(SentMessage(req[r]))

\* The generator call of request r has returned.
GeneratorReturned(r) ==
    pc[r] \in {"failStatus", "okStatus", "okArtifacts", "lock2", "store2",
               "return", "done"}

\* C21: without an API key a send request is accepted and processed all
\* the same: it writes its task in state working, the generator returns the
\* missing-key error (the outcome it has before any HTTP call, never one of
\* the call), the task is written in state failed and the request is
\* answered with the internal error carrying that reason.
C21_NoKeyFailsEachRequest ==
    ~apiKey =>
        \A r \in Requests :
            AcceptedSend(r) =>
                /\ Processed(r)
                /\ pc[r] \notin {"lock1", "store1"} => wlog[r][1] = "working"
                /\ GeneratorReturned(r) =>
                      /\ loc[r].err = NoKeyError
                      /\ loc[r].responseText = ""
                      /\ pc[r] \notin {"okStatus", "okArtifacts"}
                /\ pc[r] \in {"lock2", "store2", "return", "done"} =>
                      heap[r].state = "failed"
                /\ pc[r] = "done" =>
                      /\ wlog[r] = <<"working", "failed">>
                      /\ resp[r].kind = "error"
                      /\ resp[r].code = CodeInternalError
                      /\ resp[r].data = NoKeyError

\* Without an API key a send request has failed and been answered, and a
\* later send request has been processed to its answer as well.
C21_Witness ==
    /\ ~apiKey
    /\ \E r, q \in Requests :
          /\ r < q
          /\ AcceptedSend(r) /\ AcceptedSend(q)
          /\ pc[r] = "done" /\ pc[q] = "done"
          /\ wlog[r] = <<"working", "failed">>
          /\ wlog[q] = <<"working", "failed">>
          /\ resp[q].data = NoKeyError

-----------------------------------------------------------------------------
(* C22: one generator call per ProcessTask *)

\* C22: a ProcessTask call calls the generator exactly once: no call before
\* the request reaches it, one once it has returned, and from then on the
\* request never stands at the generator again.  After a failure the next
\* statement sets the task to failed, and the task is written so and the
\* error returned without another call.
C22_GeneratorCalledOnce ==
    /\ [](\A r \in Requests :
            Processed(r) =>
                /\ loc[r].calls = (IF GeneratorReturned(r) THEN 1 ELSE 0)
                /\ (GeneratorReturned(r) /\ loc[r].err # "") =>
                      /\ pc[r] \in {"failStatus", "lock2", "store2", "return", "done"}
                      /\ pc[r] # "failStatus" => heap[r].state = "failed")
    /\ [][\A r \in Requests :
             GeneratorReturned(r) =>
                 /\ pc'[r] \in {"failStatus", "okStatus", "okArtifacts", "lock2",
                                "store2", "return", "done"}
                 /\ loc'[r].calls = loc[r].calls
                 /\ loc'[r].err = loc[r].err
                 /\ (pc[r] = "failStatus" /\ pc'[r] # "failStatus") =>
                       /\ pc'[r] = "lock2"
                       /\ heap'[r].state = "failed"]_vars

\* A request whose one generator call failed has been answered, its task
\* written failed.
C22_Witness ==
    \E r \in Requests :
        /\ pc[r] = "done"
        /\ GeneratorFailed(r)
        /\ loc[r].calls = 1
        /\ wlog[r] = <<"working", "failed">>

-----------------------------------------------------------------------------
(* C23: the store never shrinks *)

\* GetTask of request g has returned a task (and no error).
GetTaskFound(g) ==
    /\ req[g].method = "tasks/get"
    /\ loc[g].got # 0

-----------------------------------------------------------------------------
(* C24: the more specific keyword *)

\* ProcessTask has extracted the query of its message and parsed it.
Extracted(r) == pc[r] = "extracted"

\* C24: the example query gives the profile of a software engineer from
\* Nigeria moving to Canada with 5000, and whenever the query contains
\* several profession keywords the profession returned is that of a keyword
\* which is part of no other keyword the query contains.
C24_SpecificKeywordReturned ==
    \A r \in Requests :
        Extracted(r) =>
            /\ loc[r].query = ExampleQuery =>
                  loc[r].profile =
                      UserProfile("software engineer", "Canada", 5000, "Nigeria")
            /\ LET queryLower == ToLower(loc[r].query)
                   hits == { e \in professions : Contains(queryLower, e.key) }
               IN  hits # {} =>
                       \E e \in hits :
                           /\ e.value = loc[r].profile.profession
                           /\ \A f \in hits : Contains(f.key, e.key) => f = e

-----------------------------------------------------------------------------
(* C25: the extractor as a function of the query *)

\* C25: two calls of parseUserQuery with the same query return the same
\* profile, whatever number of keywords of one table the query contains.
C25_SameQuerySameProfile ==
    \A r, q \in Requests :
        (Extracted(r) /\ Extracted(q) /\ loc[r].query = loc[q].query) =>
            loc[r].profile = loc[q].profile

-----------------------------------------------------------------------------
(* C26: the budget *)

\* C26: the budget is never negative and is 0 when the query has no "$"
\* or no digit after it; when the digits after the first "$", thousands
\* commas ignored, are immediately followed by a k it is 1000 times their
\* number, and when they are followed by something else (a decimal point
\* left aside) it is their number.
C26_BudgetOfDollarAmount ==
    \A r \in Requests :
        Extracted(r) =>
            LET q == ToLower(loc[r].query)
                idx == IndexDollar(q)
                end == CHOOSE j \in idx..Len(q) :
                           /\ \A i \in (idx + 1)..j : IsDigit(q[i]) \/ q[i] = ","
                           /\ j < Len(q) => ~(IsDigit(q[j + 1]) \/ q[j + 1] = ",")
                digits == SelectSeq(SubSeq(q, idx + 1, end), IsDigit)
                follower == IF end < Len(q) THEN q[end + 1] ELSE ""
                budget == loc[r].profile.budget
            IN  /\ budget >= 0
                /\ (idx = 0 \/ digits = <<>>) => budget = 0
                /\ (idx # 0 /\ digits # <<>> /\ follower = "k") =>
                       budget = 1000 * Decimal(digits)
                /\ (idx # 0 /\ digits # <<>> /\ follower \notin {"k", "."}) =>
                       budget = Decimal(digits)

-----------------------------------------------------------------------------
(* C27: message/send and tasks/send *)

\* Requests r and q were sent with the same params object {message, id},
\* r as tasks/send and q as message/send, and both are answered.
SameSendAnswered(r, q) ==
    /\ pc[r] = "done" /\ pc[q] = "done"
    /\ req[r].body = "ok" /\ req[q].body = "ok"
    /\ req[r].method = "tasks/send"
    /\ req[q].method = "message/send"
    /\ req[r].params = req[q].params
    /\ req[r].params.valid
    /\ req[r].params.role = "" /\ req[r].params.parts = <<>>

\* C27: a tasks/send and a message/send with the same params {message, id}
\* are both processed or both rejected, whatever the message; processed,
\* they use the same id (the given one, or each a generated one) and, with
\* the same outcome of the generator, make the same store writes and get
\* the same kind of response; rejected, they get the same error code.
C27_MessageSendIsAlias ==
    \A r, q \in Requests :
        SameSendAnswered(r, q) =>
            /\ Processed(r) <=> Processed(q)
            /\ (Processed(r) /\ Processed(q)) =>
                  /\ req[r].params.id # "" => heap[r].id = heap[q].id
                  /\ req[r].params.id = "" =>
                        \E j, k \in 1..nuuid :
                            heap[r].id = NewUUID(j) /\ heap[q].id = NewUUID(k)
                  /\ (GeneratorFailed(r) <=> GeneratorFailed(q)) =>
                        /\ wlog[r] = wlog[q]
                        /\ resp[r].kind = resp[q].kind
                        /\ resp[r].code = resp[q].code
            /\ (~Processed(r) /\ ~Processed(q)) =>
                  /\ resp[r].kind = resp[q].kind
                  /\ resp[r].code = resp[q].code

-----------------------------------------------------------------------------
(* C28: one writer or several readers *)

\* Request r is inside a write of the task map (between Lock and Unlock in
\* ProcessTask), inside a read of it (between RLock and RUnlock in GetTask).
InMapWrite(r) == pc[r] \in {"store1", "store2"}
InMapRead(r) == pc[r] = "lookup"

\* C28: at most one request is inside a map write, and none is inside a
\* map read while another is inside a map write.
C28_WritesExcludeAllOthers ==
    \A r, q \in Requests :
        (r # q /\ InMapWrite(r)) => (~InMapWrite(q) /\ ~InMapRead(q))

\* Two requests are inside a map read at the same time, both holding the
\* read lock.
C28_Witness ==
    \E r, q \in Requests :
        /\ r # q
        /\ InMapRead(r) /\ InMapRead(q)
        /\ {r, q} \subseteq mu.readers

-----------------------------------------------------------------------------
(* C29: the shape of a written task *)

\* The task t has the shape of its state; text is the generator's response.
ShapeOfState(t, text) ==
    CASE t.state = "working" -> t.message = <<>> /\ t.artifacts = <<>>
      [] t.state = "failed" -> Len(t.message) = 1 /\ t.artifacts = <<>>
      [] t.state = "completed" ->
            /\ Len(t.message) = 1
            /\ Len(t.artifacts) = 1
            /\ t.artifacts[1].text = t.message[1]
            /\ t.artifacts[1].text = text
      [] OTHER -> FALSE

-----------------------------------------------------------------------------
(* C30: the query of a message *)

\* The texts of the text-typed parts of a message, in message order.
TextsOf(message) ==
    LET textParts == SelectSeq(message.parts, LAMBDA part : part.type = "text") IN
    [i \in 1..Len(textParts) |-> textParts[i].text]

\* Texts joined by single spaces.
RECURSIVE JoinedBySpaces(_)
JoinedBySpaces(texts) ==
    IF texts = <<>> THEN <<>>
    ELSE IF Len(texts) = 1 THEN texts[1]
    ELSE texts[1] \o <<" ">> \o JoinedBySpaces(Tail(texts))

\* query is the string s without its leading and trailing whitespace.
IsTrimmed(query, s) ==
    /\ query # <<>> => (query[1] \notin WhiteSpace /\ query[Len(query)] \notin WhiteSpace)
    /\ \E lead \in 0..(Len(s) - Len(query)) :
          /\ query = SubSeq(s, lead + 1, lead + Len(query))
          /\ \A i \in 1..lead : s[i] \in WhiteSpace
          /\ \A i \in (lead + Len(query) + 1)..Len(s) : s[i] \in WhiteSpace

\* C30: the query ProcessTask hands to the extractor is the texts of the
\* text-typed parts of the message, in order, joined by single spaces and
\* trimmed; a message without text parts gives the empty query.
C30_QueryIsJoinedTrimmedTexts ==
    \A r \in Requests :
        Extracted(r) =>
            /\ IsTrimmed(loc[r].query, JoinedBySpaces(TextsOf(loc[r].message)))
            /\ TextsOf(loc[r].message) = <<>> => loc[r].query = <<>>

\* The query of a message of two padded texts around a part of another
\* type, and the empty query of a message of such parts only.
C30_Witness ==
    \E r, q \in Requests :
        /\ Extracted(r) /\ Extracted(q)
        /\ loc[r].message.parts = <<TextPart(PaddedText), FilePart, TextPart(InnerText)>>
        /\ Len(loc[r].query) = 5 + 4 + 9
        /\ loc[q].message.parts = <<FilePart, FilePart>>
        /\ loc[q].query = <<>>

-----------------------------------------------------------------------------
(* C31: the two params shapes of message/send *)

\* The params p are a wrapper {message, id} whose message has a role or a
\* part; they are themselves a message with a role or a part.
IsWrapper(p) == p.valid /\ HasContent(p.message)
IsBareMessage(p) == p.valid /\ (p.role # "" \/ Len(p.parts) > 0)

\* The id request r runs under is a generated one that no other request has.
RunsUnderFreshId(r) ==
    /\ \E k \in 1..nuuid : heap[r].id = NewUUID(k)
    /\ \A q \in Requests \ {r} : heap[q].id # heap[r].id

\* C31: a decoded message/send with wrapper params is processed with the
\* wrapper's message under the wrapper's id, or under a generated id when
\* that id is empty; with params that are no wrapper but a message it is
\* processed with that message under a fresh generated id, whatever id the
\* params hold; with params of neither shape it is answered with the
\* invalid-params error, has created no task and written nothing.
C31_MessageSendShapes ==
    \A r \in Requests :
        (req[r].method = "message/send" /\ req[r].body = "ok") =>
            LET p == req[r].params IN
            /\ IsWrapper(p) =>
                  /\ Processed(r)
                  /\ loc[r].message = p.message
                  /\ heap[r].id = loc[r].taskID
                  /\ p.id # "" => heap[r].id = p.id
                  /\ p.id = "" => RunsUnderFreshId(r)
            /\ (~IsWrapper(p) /\ IsBareMessage(p)) =>
                  /\ Processed(r)
                  /\ loc[r].message = [role |-> p.role, parts |-> p.parts]
                  /\ heap[r].id = loc[r].taskID
                  /\ RunsUnderFreshId(r)
            /\ (~IsWrapper(p) /\ ~IsBareMessage(p)) =>
                  /\ pc[r] = "done"
                  /\ resp[r].kind = "error"
                  /\ resp[r].code = CodeInvalidParams
                  /\ ~Processed(r)
                  /\ wlog[r] = <<>>
                  /\ \A i \in DOMAIN tasks : tasks[i] # r

\* A message/send whose params are a message and hold the id "a" has been
\* answered with its task, stored under a generated id, and nothing is
\* stored under "a"; another message/send has been rejected.
C31_Witness ==
    \E r, q \in Requests :
        /\ pc[r] = "done" /\ pc[q] = "done"
        /\ req[r].method = "message/send" /\ req[q].method = "message/send"
        /\ req[r].body = "ok" /\ req[q].body = "ok"
        /\ IsBareMessage(req[r].params) /\ ~IsWrapper(req[r].params)
        /\ req[r].params.id = "a"
        /\ resp[r].kind = "result"
        /\ DOMAIN tasks = {heap[r].id}
        /\ "a" \notin DOMAIN tasks
        /\ ~IsBareMessage(req[q].params) /\ ~IsWrapper(req[q].params)
        /\ resp[q].code = CodeInvalidParams

-----------------------------------------------------------------------------
(* C32: rejected requests and the store *)

\* The codes of the errors that answer a request no handler processes.
RejectionCodes == {CodeParseError, CodeInvalidParams, CodeMethodNotFound}

\* Request r has been answered with a parse error, an invalid-params error
\* or a method-not-found error.
Rejected(r) ==
    /\ pc[r] = "done"
    /\ resp[r].kind = "error"
    /\ resp[r].code \in RejectionCodes

\* C32: a request answered with -32700, -32602 or -32601 has not reached
\* ProcessTask: it has created no task and made no store write, and no
\* entry of the map is its own.  Every step that changes the map, a task
\* or the record of store writes is a step of one request that is inside
\* ProcessTask, and changes the entry and the task of that request only.
\* So the store after a rejected request is the store before it.
C32_RejectedLeavesStore ==
    /\ [](\A r \in Requests :
              Rejected(r) =>
                  /\ ~Processed(r)
                  /\ wlog[r] = <<>>
                  /\ \A i \in DOMAIN tasks : tasks[i] # r)
    /\ [][(tasks' # tasks \/ heap' # heap \/ wlog' # wlog) =>
              \E r \in Requests :
                  /\ pc'[r] # pc[r]
                  /\ Processed(r)'
                  /\ req'[r].method \in SendMethods
                  /\ \A q \in Requests \ {r} :
                        heap'[q] = heap[q] /\ wlog'[q] = wlog[q]
                  /\ \A i \in DOMAIN tasks :
                        i # loc'[r].taskID =>
                            (i \in DOMAIN tasks' /\ tasks'[i] = tasks[i])
                  /\ DOMAIN tasks' \subseteq DOMAIN tasks \cup {loc'[r].taskID}]_vars

\* A task has been stored by one request and a later request has been
\* answered with a parse error; the task is in the map as it was written.
C32_Witness ==
    \E r, q \in Requests :
        /\ q < r
        /\ Rejected(r)
        /\ resp[r].code = CodeParseError
        /\ pc[q] = "done"
        /\ TerminalWritten(q)
        /\ DOMAIN tasks = {heap[q].id}
        /\ tasks[heap[q].id] = q

-----------------------------------------------------------------------------
(* C33: tasks/get reads only *)

\* The step is one of the tasks/get request g: its decoding, or a
\* statement of its handler.
StepOfGet(g) == pc'[g] # pc[g] /\ req'[g].method = "tasks/get"

\* C33: no step of a tasks/get, from its decoding to its answer and
\* whether the answer is the task or an error, changes the task map, a
\* field of a task, the record of store writes or the count of generated
\* ids: it creates no task, adds or removes no id and changes no stored
\* task.
C33_GetIsReadOnly ==
    [][\A g \in Requests :
          StepOfGet(g) =>
              /\ tasks' = tasks
              /\ heap' = heap
              /\ wlog' = wlog
              /\ nuuid' = nuuid]_vars

\* A tasks/get has been answered with the task another request stored, and
\* that task is in the map under its id as its request left it.
C33_Witness ==
    \E g, r \in Requests :
        /\ GetAnswered(g)
        /\ loc[g].got = r
        /\ pc[r] = "done"
        /\ TerminalWritten(r)
        /\ DOMAIN tasks = {heap[r].id}
        /\ tasks[heap[r].id] = r
        /\ heap[g] = NilTask
        /\ wlog[g] = <<>>

-----------------------------------------------------------------------------
(* C34: a task is stored under its own id *)

\* Request g is a decoded tasks/get whose params hold no id, answered.
IdlessGetAnswered(g) ==
    /\ pc[g] = "done"
    /\ req[g].method = "tasks/get"
    /\ req[g].body = "ok"
    /\ req[g].params.valid
    /\ req[g].params.id = ""

\* C34: every key of the task map is the id of the task stored under it
\* and is not empty; the id of a task never changes once the task exists;
\* and a tasks/get without an id is answered with the not-found error.
C34_StoredUnderOwnId ==
    /\ [](\A i \in DOMAIN tasks : i # "" /\ Stored(i).id = i)
    /\ [](\A g \in Requests :
              IdlessGetAnswered(g) =>
                  /\ resp[g].kind = "error"
                  /\ resp[g].code = CodeInvalidParams
                  /\ resp[g].message = TaskNotFound("")
                  /\ resp[g].task = NilTask)
    /\ [][\A r \in Requests : Processed(r) => heap'[r].id = heap[r].id]_vars

\* A send without an id has stored its task, under a generated id, and a
\* later tasks/get without an id has been answered not-found.
C34_Witness ==
    \E g, r \in Requests :
        /\ r < g
        /\ IdlessGetAnswered(g)
        /\ resp[g].message = TaskNotFound("")
        /\ req[r].method \in SendMethods
        /\ req[r].params.id = ""
        /\ pc[r] = "done"
        /\ TerminalWritten(r)
        /\ heap[r].id # ""
        /\ DOMAIN tasks = {heap[r].id}

-----------------------------------------------------------------------------
(* C35: createdAt and updatedAt *)

\* C35: with a clock that never goes back, a task's createdAt is at no
\* time later than its updatedAt, in particular at both store writes, which
\* change neither; createdAt never changes once the task exists and
\* updatedAt never goes back; and the step that makes the task terminal,
\* before the terminal write, sets updatedAt to a new reading of the clock,
\* so the updatedAt of the terminal write is not earlier than the initial
\* one.
C35_TimestampsOrdered ==
    /\ [](\A r \in Requests :
              Processed(r) => times[r].createdAt <= times[r].updatedAt)
    /\ [][/\ clock'.now >= clock.now
          /\ \A r \in Requests :
                /\ Processed(r) =>
                      /\ times'[r].createdAt = times[r].createdAt
                      /\ times'[r].updatedAt >= times[r].updatedAt
                /\ wlog'[r] # wlog[r] =>
                      /\ times'[r] = times[r]
                      /\ times[r].createdAt <= times[r].updatedAt
                /\ (pc[r] \in {"failStatus", "okArtifacts"} /\ pc'[r] = "lock2") =>
                      /\ times'[r].updatedAt = clock'.now
                      /\ times'[r].updatedAt >= clock.now]_vars

\* A task created at tick 1 has been written terminal with updatedAt 3:
\* its initial updatedAt was a reading right after createdAt, at most 2.
C35_Witness ==
    \E r \in Requests :
        /\ pc[r] = "done"
        /\ wlog[r] = <<"working", "completed">>
        /\ times[r].createdAt = 1
        /\ times[r].updatedAt = 3
        /\ tasks[heap[r].id] = r

-----------------------------------------------------------------------------
(* C36: one response for each request *)

ErrorCodes ==
    {CodeParseError, CodeMethodNotFound, CodeInvalidParams, CodeInternalError}

\* ProcessTask of the send request r has returned without error; GetTask of
\* the tasks/get request r has returned a task.
Succeeded(r) ==
    \/ /\ req[r].method \in SendMethods
       /\ TerminalWritten(r)
       /\ loc[r].err = ""
       /\ heap[r].state = "completed"
    \/ GetTaskFound(r)

\* C36: under LiveSpec every decoded request is answered (again and again
\* all requests that have arrived are answered, and an answer stays); it
\* has no response before it is answered and its response never changes
\* afterwards; the response is a result or an error, never both and never
\* neither: a result, carrying a task, only when ProcessTask or GetTask
\* succeeded, and otherwise an error without a task whose code is -32700,
\* -32601, -32602 or -32603.
C36_ExactlyOneResponse ==
    /\ []<>(\A r \in Requests : pc[r] # "idle" => pc[r] = "done")
    /\ [](\A r \in Requests :
              /\ pc[r] # "done" => resp[r] = NoResponse
              /\ pc[r] = "done" =>
                    /\ resp[r].kind \in {"result", "error"}
                    /\ resp[r].kind = "result" <=> Succeeded(r)
                    /\ resp[r].kind = "result" =>
                          (resp[r].code = 0 /\ resp[r].task # NilTask)
                    /\ resp[r].kind = "error" =>
                          (resp[r].code \in ErrorCodes /\ resp[r].task = NilTask))
    /\ [][\A r \in Requests :
              pc[r] = "done" => (pc'[r] = "done" /\ resp'[r] = resp[r])]_vars

\* One request has been answered with a result and another with the
\* internal error.
C36_Witness ==
    \E r, q \in Requests :
        /\ pc[r] = "done" /\ pc[q] = "done"
        /\ resp[r].kind = "result"
        /\ Succeeded(r)
        /\ resp[q].kind = "error"
        /\ resp[q].code = CodeInternalError

====
